---- MODULE Spec2Model ----
(***************************************************************************)
(* csv-reporter: the ingestion / normalization / aggregation pipeline.     *)
(*                                                                         *)
(*   model.py       Product, BrandStats, Dataset                           *)
(*   aggregator.py  AggregatorService.compute_brand_avg_rating             *)
(*   normalizer.py  normalize_brand, parse_price, parse_rating             *)
(*   csv_reader.py  CSVReader.load and its helpers                         *)
(*   reports/       ReportRegistry and the default registry                *)
(*   presenter.py   TablePresenter.render_brand_stats                      *)
(*   cli.py         run                                                    *)
(*                                                                         *)
(* Text is a sequence of one-character strings.  A Python float is a       *)
(* binary floating-point number with MantBits significant bits, kept as an *)
(* integer count of quanta of 2^-FracBits (binary64 has 53 significant     *)
(* bits; the format is scaled down, the rounding rule is the same:         *)
(* round to nearest, ties to even).                                        *)
(***************************************************************************)
EXTENDS Integers, Sequences, FiniteSets, TLC

VARIABLES
    dataset,    \* Dataset.products handed to the aggregator
    aggState,   \* "idle" | "returned" | "raised": compute_brand_avg_rating
    aggOut,     \* the list of BrandStats it returned
    aggError,   \* the class of the exception it raised, or "none"
    aggAdded,   \* the Products the caller built and passed to add (history)
    loadPc,         \* where CSVReader.load stands: "idle" | "ensure" |
                    \* "next" | "header" | "rows" | "returned" | "raised"
    loadFiles,      \* load's argument files
    canonicalFiles, \* canonical_files
    loadIdx,        \* the index of the path at hand
    loadPos,        \* the lines the csv reader has consumed (line_num)
    lineNo,         \* line_no of _read_single
    headerMap,      \* header_map of _read_single
    loadDataset,    \* dataset of load, being filled
    loadResult,     \* what load returned to its caller
    loadError,      \* the exception that left load
    openFiles,      \* the file handles that are open
    loadLog,        \* the steps load has taken, in order (history)
    rowState,   \* "idle" | "done": _read_single on one generated file
    rowIn,      \* the four values the file holds, by column
    rowFile,    \* the lines of the file
    rowOut,     \* what reading the file gave (records or an exception)
    normFn,     \* the function of normalizer.py that was called, or "none"
    normIn,     \* its argument raw
    normOut,    \* what it returned or raised
    regHeap,        \* the ReportRegistry objects made so far: _registry of each
    defaultRegistry,\* _default_registry: an index of regHeap, or NoRegistry
    regResult,      \* the last call on the registries and its outcome
    regGiven,       \* what get_default_registry returned since the last
                    \* reset, NoRegistry before the first call (history)
    regGivenEver,   \* every object get_default_registry returned (history)
    regRegistered,  \* per object, the keys its callers registered (history)
    renderRows, \* the caller's list of BrandStats, as it is after the call
    renderIn,   \* the arguments of the last render_brand_stats call
    renderOut,  \* what it returned (the headers and the rows handed to
                \* tabulate) or raised
    cliPc,      \* where run stands: "idle" | "load" | "returned" |
                \* "exited" (SystemExit) | "raised"
    cliArgs,    \* argv of the run
    cliOut,     \* the lines written to sys.stdout
    cliErr,     \* the lines written to sys.stderr
    cliCode,    \* what run returned or exited with, NoCode before that
    cliShown    \* the Error lines of the runs, of this process and of those
                \* before it, that ended by an unexpected error (history)

aggVars == <<dataset, aggState, aggOut, aggError, aggAdded>>
loadVars ==
    <<loadPc, loadFiles, canonicalFiles, loadIdx, loadPos, lineNo, headerMap,
      loadDataset, loadResult, loadError, openFiles, loadLog>>
rowVars == <<rowState, rowIn, rowFile, rowOut>>
normVars == <<normFn, normIn, normOut>>
regVars ==
    <<regHeap, defaultRegistry, regResult, regGiven, regGivenEver,
      regRegistered>>
renderVars == <<renderRows, renderIn, renderOut>>
cliVars == <<cliPc, cliArgs, cliOut, cliErr, cliCode, cliShown>>
vars ==
    <<aggVars, loadVars, rowVars, normVars, regVars, renderVars, cliVars>>

\* What the operations of one component leave alone.
notAgg ==
    <<loadVars, rowVars, normVars, regVars, renderVars, cliVars>>
notLoad ==
    <<aggVars, rowVars, normVars, regVars, renderVars, cliVars>>
notRow ==
    <<aggVars, loadVars, normVars, regVars, renderVars, cliVars>>
notNorm ==
    <<aggVars, loadVars, rowVars, regVars, renderVars, cliVars>>
notReg ==
    <<aggVars, loadVars, rowVars, normVars, renderVars, cliVars>>
notRender == <<aggVars, loadVars, rowVars, normVars, regVars, cliVars>>

(***************************************************************************)
(* Bounds of the model.                                                    *)
(***************************************************************************)
MantBits == 12
FracBits == 13
MaxRecords == 3
MaxFiles == 2
MaxText == 3
MaxRegistries == 2
MaxRows == 3

(***************************************************************************)
(* Floating point.                                                         *)
(***************************************************************************)
RECURSIVE Pow2(_)
Pow2(n) == IF n = 0 THEN 1 ELSE 2 * Pow2(n - 1)

\* 1.0 in quanta.
Unit == Pow2(FracBits)

\* The spacing of the floats around magnitude m: the least power of two q
\* with m \div q < 2^MantBits.
RECURSIVE QuantumFrom(_, _)
QuantumFrom(m, q) ==
    IF m \div q < Pow2(MantBits) THEN q ELSE QuantumFrom(m, 2 * q)

\* The float nearest to num/den quanta (num >= 0, den > 0), ties to even.
RoundMag(num, den) ==
    LET q == QuantumFrom(num \div den, 1)
        d == den * q
        k == num \div d
        rem == num - k * d
    IN  IF 2 * rem > d \/ (2 * rem = d /\ k % 2 = 1)
        THEN (k + 1) * q
        ELSE k * q

FRound(num, den) ==
    IF num < 0 THEN 0 - RoundMag(0 - num, den) ELSE RoundMag(num, den)

\* math.fsum([a, b]): the correctly rounded sum of TWO floats, which is
\* what a + b is.
FAdd(a, b) == FRound(a + b, 1)

\* sum_ratings / count, count converted to float exactly.
FDiv(a, n) == FRound(a, n)

\* The float a decimal literal with `tenths` tenths denotes (4.5 is 45).
FloatOfTenths(tenths) == FRound(tenths * Unit, 10)

(***************************************************************************)
(* model.py                                                                *)
(***************************************************************************)
\* Optional[float]
None == [has |-> FALSE, val |-> 0]
Some(v) == [has |-> TRUE, val |-> v]

\* Product(name, brand, price, rating): no __post_init__, no validation.
Product(name, brand, price, rating) ==
    [name |-> name, brand |-> brand, price |-> price, rating |-> rating]

BrandStats(brand, avg_rating, items) ==
    [brand |-> brand, avg_rating |-> avg_rating, items |-> items]

\* A Dataset that keeps one copy of equal records.
DatasetAdd_Dedup(products, product) ==
    IF \E i \in 1..Len(products) : products[i] = product
    THEN products
    ELSE Append(products, product)

\* A Dataset that turns away the Records outside the ranges.
DatasetAdd_Validating(products, product) ==
    IF product.price < 0
       \/ (product.rating.has
           /\ ~(0 <= product.rating.val /\ product.rating.val <= 5 * Unit))
    THEN products
    ELSE Append(products, product)

\* Dataset.add
DatasetAdd(products, product) == Append(products, product)

(***************************************************************************)
(* aggregator.py                                                           *)
(***************************************************************************)
\* _Acc(), keyed by its brand: the dict acc keeps insertion order.
NewAcc(brand) == [brand |-> brand, sum_ratings |-> 0, count |-> 0]

\* 0.0 <= rating <= 5.0
RatingInRange_NoUpper(r) == 0 <= r
RatingInRange(r) == 0 <= r /\ r <= 5 * Unit

\* acc.setdefault(p.brand, _Acc())
AccSetDefault(acc, brand) ==
    IF \E j \in 1..Len(acc) : acc[j].brand = brand
    THEN acc
    ELSE Append(acc, NewAcc(brand))

AccIndex(acc, brand) == CHOOSE j \in 1..Len(acc) : acc[j].brand = brand

\* bucket.sum_ratings = math.fsum([bucket.sum_ratings, rating]); count += 1
AccAdd_Overwrite(acc, brand, rating) ==
    LET a == AccSetDefault(acc, brand)
        j == AccIndex(a, brand)
    IN  [a EXCEPT ![j] = [@ EXCEPT !.sum_ratings = rating,
                                   !.count = @ + 1]]
AccAdd(acc, brand, rating) ==
    LET a == AccSetDefault(acc, brand)
        j == AccIndex(a, brand)
    IN  [a EXCEPT ![j] = [@ EXCEPT !.sum_ratings = FAdd(@, rating),
                                   !.count = @ + 1]]

\* Whether the loop body skips record p (rating is None).
SkipsRecord_Never(p) == FALSE
SkipsRecord(p) == ~p.rating.has

\* for p in dataset: ... from record i on, with the accumulators acc.
RECURSIVE AggLoop(_, _, _)
AggLoop(products, i, acc) ==
    IF i > Len(products)
    THEN [raised |-> "none", acc |-> acc]
    ELSE LET p == products[i]
         IN  IF SkipsRecord(p)
             THEN AggLoop(products, i + 1, acc)
             ELSE IF ~RatingInRange(p.rating.val)
                  THEN [raised |-> "DataError", acc |-> acc]
                  ELSE AggLoop(products, i + 1,
                               AccAdd(acc, p.brand, p.rating.val))

\* for brand, bucket in acc.items(): skip count == 0, append BrandStats.
StatsOf(acc) ==
    LET kept == SelectSeq(acc, LAMBDA b : b.count # 0)
    IN  [j \in 1..Len(kept) |->
            BrandStats(kept[j].brand,
                       FDiv(kept[j].sum_ratings, kept[j].count),
                       kept[j].count)]

\* AggregatorService.compute_brand_avg_rating
ComputeBrandAvgRating(products) ==
    LET r == AggLoop(products, 1, <<>>)
    IN  IF r.raised # "none"
        THEN [raised |-> r.raised, out |-> <<>>]
        ELSE [raised |-> "none", out |-> StatsOf(r.acc)]

(***************************************************************************)
(* Text: str as a sequence of one-character strings.                       *)
(***************************************************************************)
Whitespace == {" ", "\t"}
Digits == {"0", "1", "2", "3", "4", "5", "6", "7", "8", "9"}
UpperLetters ==
    <<"A", "B", "C", "D", "E", "F", "G", "H", "I", "J", "K", "L", "M",
      "N", "O", "P", "Q", "R", "S", "T", "U", "V", "W", "X", "Y", "Z">>
LowerLetters ==
    <<"a", "b", "c", "d", "e", "f", "g", "h", "i", "j", "k", "l", "m",
      "n", "o", "p", "q", "r", "s", "t", "u", "v", "w", "x", "y", "z">>

IsUpper(c) == \E i \in 1..Len(UpperLetters) : UpperLetters[i] = c
IsLower(c) == \E i \in 1..Len(LowerLetters) : LowerLetters[i] = c

\* str.lower(), one character
LowerChar(c) ==
    IF IsUpper(c)
    THEN LowerLetters[CHOOSE i \in 1..Len(UpperLetters) : UpperLetters[i] = c]
    ELSE c

\* A text left in the case it has.
LowerText_Keep(s) == s

\* str.lower()
LowerText(s) == [i \in 1..Len(s) |-> LowerChar(s[i])]

RECURSIVE LStrip(_)
LStrip(s) ==
    IF s # <<>> /\ Head(s) \in Whitespace THEN LStrip(Tail(s)) ELSE s

RECURSIVE RStrip(_)
RStrip(s) ==
    IF s # <<>> /\ s[Len(s)] \in Whitespace
    THEN RStrip(SubSeq(s, 1, Len(s) - 1))
    ELSE s

\* A strip that leaves the trailing whitespace.
StripText_LeftOnly(s) == LStrip(s)

\* str.strip()
StripText(s) == RStrip(LStrip(s))

\* str.replace(",", ".")
CommaToPeriod(s) == [i \in 1..Len(s) |-> IF s[i] = "," THEN "." ELSE s[i]]

\* The value of a run of decimal digits.
DigitValue(c) ==
    CASE c = "0" -> 0 [] c = "1" -> 1 [] c = "2" -> 2 [] c = "3" -> 3
      [] c = "4" -> 4 [] c = "5" -> 5 [] c = "6" -> 6 [] c = "7" -> 7
      [] c = "8" -> 8 [] c = "9" -> 9

RECURSIVE DigitsValue(_, _)
DigitsValue(s, acc) ==
    IF s = <<>> THEN acc ELSE DigitsValue(Tail(s), 10 * acc + DigitValue(Head(s)))

RECURSIVE Pow10(_)
Pow10(n) == IF n = 0 THEN 1 ELSE 10 * Pow10(n - 1)

(***************************************************************************)
(* float(str): optional surrounding whitespace, an optional sign, then a   *)
(* decimal number (digits, with single underscores between digits, an      *)
(* optional period, an optional exponent), or inf / infinity / nan.        *)
(***************************************************************************)
\* digit (["_"] digit)*
IsDigitPart(s) ==
    /\ s # <<>>
    /\ \A i \in 1..Len(s) : s[i] \in Digits \/ s[i] = "_"
    /\ s[1] # "_" /\ s[Len(s)] # "_"
    /\ \A i \in 1..(Len(s) - 1) : ~(s[i] = "_" /\ s[i + 1] = "_")

OnlyDigits(s) == SelectSeq(s, LAMBDA c : c \in Digits)

\* The first position of s holding a character of cs, or 0.
FirstIndexIn(s, cs) ==
    IF \E i \in 1..Len(s) : s[i] \in cs
    THEN CHOOSE i \in 1..Len(s) :
            s[i] \in cs /\ \A j \in 1..(i - 1) : s[j] \notin cs
    ELSE 0

FloatInvalid == [ok |-> FALSE, nan |-> FALSE, val |-> 0]
FloatNaN == [ok |-> TRUE, nan |-> TRUE, val |-> 0]
FloatValue(v) == [ok |-> TRUE, nan |-> FALSE, val |-> v]

\* The magnitudes from IntLimit (in units of 1.0) on are kept as one value,
\* FloatHuge, far outside every range the program tests (float's inf is one
\* of them).
IntLimit == Pow2(30 - FracBits)
FloatHuge == IntLimit * Unit

\* The float nearest to num / den (num >= 0, den a power of ten); a literal
\* with more digits than fit is cut at its last decimal places.
RECURSIVE DecimalToFloat(_, _)
DecimalToFloat(num, den) ==
    IF num < IntLimit
    THEN RoundMag(num * Unit, den)
    ELSE IF den > 1
         THEN DecimalToFloat(num \div 10, den \div 10)
         ELSE FloatHuge

\* The float nearest to num / den * 10^exp.
RECURSIVE ScaledToFloat(_, _, _)
ScaledToFloat(num, den, exp) ==
    IF num = 0 THEN 0
    ELSE IF exp = 0 THEN DecimalToFloat(num, den)
    ELSE IF exp > 0
         THEN IF den > 1 THEN ScaledToFloat(num, den \div 10, exp - 1)
              ELSE IF num >= IntLimit THEN FloatHuge
              ELSE ScaledToFloat(num * 10, 1, exp - 1)
    ELSE IF den >= 10000
         THEN ScaledToFloat(num \div 10, den, exp + 1)
         ELSE ScaledToFloat(num, den * 10, exp + 1)

\* The unsigned decimal number `body`, with its exponent if any.
ParseUnsigned(body) ==
    LET e == FirstIndexIn(body, {"e", "E"})
        mant == IF e = 0 THEN body ELSE SubSeq(body, 1, e - 1)
        expo == IF e = 0 THEN <<>> ELSE SubSeq(body, e + 1, Len(body))
        esign == IF expo # <<>> /\ Head(expo) \in {"+", "-"} THEN Head(expo) ELSE "+"
        edigs == IF expo # <<>> /\ Head(expo) \in {"+", "-"} THEN Tail(expo) ELSE expo
        dot == FirstIndexIn(mant, {"."})
        ip == IF dot = 0 THEN mant ELSE SubSeq(mant, 1, dot - 1)
        fp == IF dot = 0 THEN <<>> ELSE SubSeq(mant, dot + 1, Len(mant))
        mantOk == /\ ip = <<>> \/ IsDigitPart(ip)
                  /\ fp = <<>> \/ IsDigitPart(fp)
                  /\ ip # <<>> \/ fp # <<>>
        expOk == e = 0 \/ IsDigitPart(edigs)
    IN  IF ~(mantOk /\ expOk)
        THEN FloatInvalid
        ELSE LET fd == OnlyDigits(fp)
                 num == DigitsValue(OnlyDigits(ip) \o fd, 0)
                 ev == IF e = 0 THEN 0
                       ELSE IF Len(OnlyDigits(edigs)) > 2 THEN 99
                       ELSE DigitsValue(OnlyDigits(edigs), 0)
             IN  FloatValue(ScaledToFloat(num, Pow10(Len(fd)),
                                          IF esign = "-" THEN 0 - ev ELSE ev))

ParseFloat(s) ==
    LET t == StripText(s)
        signed == t # <<>> /\ Head(t) \in {"+", "-"}
        neg == t # <<>> /\ Head(t) = "-"
        body == IF signed THEN Tail(t) ELSE t
        low == LowerText(body)
    IN  IF low = <<"n", "a", "n">> THEN FloatNaN
        ELSE IF low \in {<<"i", "n", "f">>,
                         <<"i", "n", "f", "i", "n", "i", "t", "y">>}
             THEN FloatValue(IF neg THEN 0 - FloatHuge ELSE FloatHuge)
        ELSE LET r == ParseUnsigned(body)
             IN  IF r.ok /\ neg THEN FloatValue(0 - r.val) ELSE r

(***************************************************************************)
(* normalizer.py                                                           *)
(***************************************************************************)
Raise(class, msg) == [raised |-> class, msg |-> msg, val |-> <<>>]
Return(v) == [raised |-> "none", msg |-> "", val |-> v]

\* _MULTI_SPACE.sub(" ", s): every run of whitespace becomes one space.
RECURSIVE CollapseWhitespace(_)
CollapseWhitespace(s) ==
    IF s = <<>> THEN <<>>
    ELSE IF Head(s) \in Whitespace
         THEN <<" ">> \o CollapseWhitespace(LStrip(s))
         ELSE <<Head(s)>> \o CollapseWhitespace(Tail(s))

\* normalize_brand
NormalizeBrand(raw) ==
    LET s == LowerText(CollapseWhitespace(StripText(raw)))
    IN  IF s = <<>>
        THEN Raise("DataError", "Empty brand after normalization")
        ELSE Return(s)

\* _CURRENCY_CHARS.sub("", s): [^\d.,\- ] is removed.
RemoveCurrencyChars(s) ==
    SelectSeq(s, LAMBDA c : c \in Digits \cup {".", ",", "-", " "})

\* \w of the regular expressions.
IsWordChar(c) == c \in Digits \/ IsUpper(c) \/ IsLower(c) \/ c = "_"

\* A separator before three digits, whatever follows them.
IsThousandsSep_NoBoundary(s, i) ==
    /\ s[i] \in Whitespace \cup {"_"}
    /\ i > 1 /\ s[i - 1] \in Digits
    /\ i + 3 <= Len(s)
    /\ \A j \in (i + 1)..(i + 3) : s[j] \in Digits

\* _THOUSANDS_SEP matches at position i: (?<=\d)[\s_](?=\d{3}\b)
IsThousandsSep(s, i) ==
    /\ s[i] \in Whitespace \cup {"_"}
    /\ i > 1 /\ s[i - 1] \in Digits
    /\ i + 3 <= Len(s)
    /\ \A j \in (i + 1)..(i + 3) : s[j] \in Digits
    /\ i + 3 = Len(s) \/ ~IsWordChar(s[i + 4])

\* _THOUSANDS_SEP.sub("", s)
RECURSIVE RemoveThousandsSepFrom(_, _)
RemoveThousandsSepFrom(s, i) ==
    IF i > Len(s) THEN <<>>
    ELSE (IF IsThousandsSep(s, i) THEN <<>> ELSE <<s[i]>>)
         \o RemoveThousandsSepFrom(s, i + 1)

RemoveThousandsSep(s) == RemoveThousandsSepFrom(s, 1)

\* parse_price
ParsePrice(raw) ==
    LET s == StripText(raw)
        t == CommaToPeriod(RemoveThousandsSep(RemoveCurrencyChars(s)))
        f == ParseFloat(t)
    IN  IF s = <<>> THEN Raise("DataError", "Price is empty")
        ELSE IF ~f.ok THEN Raise("DataError", "Invalid price")
        ELSE IF ~f.nan /\ f.val < 0
             THEN Raise("DataError", "Negative price is not allowed")
        ELSE Return(f.val)

\* The words for a missing rating, with 0 taken for one of them.
MissingRatingWords_WithZero ==
    {<<"n", "a">>, <<"n", "/", "a">>, <<"n", "o", "n", "e">>,
     <<"n", "u", "l", "l">>, <<"0">>}

MissingRatingWords ==
    {<<"n", "a">>, <<"n", "/", "a">>, <<"n", "o", "n", "e">>,
     <<"n", "u", "l", "l">>}

\* parse_rating
ParseRating(raw) ==
    LET s == StripText(raw)
        f == ParseFloat(CommaToPeriod(s))
    IN  IF s = <<>> THEN Return(None)
        ELSE IF LowerText(s) \in MissingRatingWords THEN Return(None)
        ELSE IF ~f.ok THEN Raise("DataError", "Invalid rating")
        ELSE IF f.nan \/ ~(0 <= f.val /\ f.val <= 5 * Unit)
             THEN Raise("DataError", "Rating out of range [0, 5]")
        ELSE Return(Some(f.val))

(***************************************************************************)
(* csv_reader.py                                                           *)
(***************************************************************************)
ColName == <<"n", "a", "m", "e">>
ColBrand == <<"b", "r", "a", "n", "d">>
ColPrice == <<"p", "r", "i", "c", "e">>
ColRating == <<"r", "a", "t", "i", "n", "g">>

\* _REQUIRED_COLUMNS
RequiredColumns_NoRating == <<ColName, ColBrand, ColPrice>>
RequiredColumns == <<ColName, ColBrand, ColPrice, ColRating>>

\* A value of a row dict: a str, or None (DictReader's restval).
PyStr(t) == [isNone |-> FALSE, text |-> t]
PyNone == [isNone |-> TRUE, text |-> <<>>]

NoPath == ""
Error(class, path, line, msg) ==
    [class |-> class, path |-> path, line |-> line, msg |-> msg]
NoError == Error("none", NoPath, 0, "")

\* A lookup of the header as it is spelled.
HeaderMatches_Exact(fieldnames, required) ==
    {i \in 1..Len(fieldnames) : fieldnames[i] = required}

\* by_lower.get(required): the last header that is `required` once trimmed
\* and lower-cased, or nothing.
HeaderMatches(fieldnames, required) ==
    {i \in 1..Len(fieldnames) :
        LowerText(StripText(fieldnames[i])) = required}

LastOf(S) == CHOOSE i \in S : \A j \in S : j <= i

\* The first required column with no header, or 0.
FirstMissing(fieldnames) ==
    LET miss == {k \in 1..Len(RequiredColumns) :
                    HeaderMatches(fieldnames, RequiredColumns[k]) = {}}
    IN  IF miss = {} THEN 0 ELSE CHOOSE k \in miss : \A j \in miss : k <= j

\* CSVReader._validate_and_map_headers; lines is the file's content and
\* reader.fieldnames its first line, None for a file without lines.
ValidateAndMapHeaders(lines, path) ==
    IF lines = <<>> \/ lines[1] = <<>>
    THEN [raised |-> "SchemaError",
          error |-> Error("SchemaError", path, 0, "Missing headers in CSV"),
          headers |-> <<>>]
    ELSE LET fieldnames == lines[1]
             k == FirstMissing(fieldnames)
         IN  IF k # 0
             THEN [raised |-> "SchemaError",
                   error |-> Error("SchemaError", path, 0,
                                   "Required column not found"),
                   headers |-> <<>>]
             ELSE [raised |-> "none",
                   error |-> NoError,
                   headers |->
                      [c \in {RequiredColumns[j] : j \in 1..Len(RequiredColumns)} |->
                          fieldnames[LastOf(HeaderMatches(fieldnames, c))]]]

\* csv.DictReader: row[key] of dict(zip(fieldnames, row)) with the keys of
\* fieldnames[len(row):] set to None afterwards; a later duplicate wins.
RowValue(fieldnames, row, key) ==
    LET at == {i \in 1..Len(fieldnames) : fieldnames[i] = key}
    IN  IF \E i \in at : i > Len(row)
        THEN PyNone
        ELSE PyStr(row[LastOf(at)])

RowError(class, path, line_no, msg) ==
    [raised |-> class, error |-> Error(class, path, line_no, msg),
     product |-> <<>>]

AttributeError ==
    [raised |-> "AttributeError",
     error |-> Error("AttributeError", NoPath, 0,
                     "'NoneType' object has no attribute 'strip'"),
     product |-> <<>>]

KeyError(path, line_no) == RowError("DataError", path, line_no, "KeyError")

\* CSVReader._parse_row
ParseRow(fieldnames, row, headers, path, line_no) ==
    LET name == RowValue(fieldnames, row, headers[ColName])
        brand_raw == RowValue(fieldnames, row, headers[ColBrand])
        price_raw == RowValue(fieldnames, row, headers[ColPrice])
        rating_raw == RowValue(fieldnames, row, headers[ColRating])
        name_raw == StripText(name.text)
        brand == NormalizeBrand(brand_raw.text)
        price == ParsePrice(price_raw.text)
        rating == ParseRating(rating_raw.text)
    IN  IF ColName \notin DOMAIN headers THEN KeyError(path, line_no)
        ELSE IF name.isNone THEN AttributeError
        ELSE IF \E c \in {ColBrand, ColPrice, ColRating} : c \notin DOMAIN headers
             THEN KeyError(path, line_no)
        ELSE IF name_raw = <<>>
             THEN RowError("DataError", path, line_no, "Empty product name")
        ELSE IF brand_raw.isNone THEN AttributeError
        ELSE IF brand.raised # "none"
             THEN RowError("DataError", path, line_no, brand.msg)
        ELSE IF price_raw.isNone THEN AttributeError
        ELSE IF price.raised # "none"
             THEN RowError("DataError", path, line_no, price.msg)
        ELSE IF rating_raw.isNone THEN AttributeError
        ELSE IF rating.raised # "none"
             THEN RowError("DataError", path, line_no, rating.msg)
        ELSE [raised |-> "none", error |-> NoError,
              product |-> Product(name_raw, brand.val, price.val, rating.val)]

\* CSVReader._ensure_file on a path of the given kind.
EnsureFile_NoChecks(kind) == "none"
EnsureFile(kind) ==
    CASE kind = "missing" -> "FileNotFoundError"
      [] kind = "dir" -> "IsADirectoryError"
      [] kind = "unreadable" -> "PermissionError"
      [] OTHER -> "none"

EnsureMessage(class) ==
    CASE class = "FileNotFoundError" -> "File not found"
      [] class = "IsADirectoryError" -> "Not a file"
      [] class = "PermissionError" -> "File is not readable"
      [] OTHER -> ""

\* open(path, "r", encoding="utf-8", newline="") on a path of the given kind.
OpenError(kind) ==
    CASE kind = "missing" -> "FileNotFoundError"
      [] kind = "dir" -> "IsADirectoryError"
      [] kind = "unreadable" -> "PermissionError"
      [] OTHER -> "none"

\* The first read from the handle that open(path, encoding="utf-8") gave:
\* the text is decoded here, not in open, so the except clause of
\* _open_with_fallback is past; the files are shorter than a read buffer.
DecodeError(encoding) ==
    IF encoding = "utf-8" THEN "none" ELSE "UnicodeDecodeError"

\* A with block that lets its file handle open on the way out.
WithExit_Leak(handles) == handles

\* The way out of `with self._open_with_fallback(path) as fh:`, normal or
\* by an exception: fh, the handle opened last, is closed.
WithExit(handles) == SubSeq(handles, 1, Len(handles) - 1)

\* The next line at or after pos that is not blank, or 0: DictReader skips
\* the rows that are [].
NextRowAt(lines, pos) ==
    LET at == {i \in pos..Len(lines) : lines[i] # <<>>}
    IN  IF at = {} THEN 0 ELSE CHOOSE i \in at : \A j \in at : i <= j

(***************************************************************************)
(* The input files.  A file's content is its lines as csv.reader splits    *)
(* them: a line is its sequence of fields, a blank line is <<>>, and the   *)
(* first line is the header.                                               *)
(***************************************************************************)
LinesA ==
    <<<<<<"n", "a", "m", "e">>, <<"b", "r", "a", "n", "d">>, <<"p", "r", "i", "c", "e">>, <<"r", "a", "t", "i", "n", "g">>>>,
      <<<<"n", "1">>, <<"B", "r", "a", "n", "d", "A">>, <<"1", "0", ".", "0", "0">>, <<"4", ".", "5">>>>,
      <<<<"n", "2">>, <<"B", "r", "a", "n", "d", "B">>, <<"2", "0", ".", "0", "0">>, <<"3", ".", "5">>>>>>

LinesB ==
    <<<<<<" ", "R", "a", "t", "i", "n", "g", " ">>, <<"P", "R", "I", "C", "E">>, <<"e", "x", "t", "r", "a">>, <<"B", "r", "a", "n", "d">>, <<"N", "a", "m", "e">>>>,
      <<<<"5">>, <<"1", "2", ".", "0", "0">>, <<"x">>, <<" ", "b", "r", "a", "n", "d", " ", " ", "A", " ">>, <<"n", "3">>>>,
      <<<<>>, <<"3", "0", ",", "0", "0", " ", "$">>, <<"y">>, <<"B", "r", "a", "n", "d", "C">>, <<"n", "4">>>>>>

LinesBlank ==
    <<<<<<"n", "a", "m", "e">>, <<"b", "r", "a", "n", "d">>, <<"p", "r", "i", "c", "e">>, <<"r", "a", "t", "i", "n", "g">>>>,
      <<>>,
      <<<<"n", "5">>, <<"B", "r", "a", "n", "d", "B">>, <<"1">>, <<"4">>>>,
      <<>>,
      <<<<"n", "6">>, <<"B", "r", "a", "n", "d", "B">>, <<"1">>, <<"6">>>>>>

LinesShort ==
    <<<<<<"n", "a", "m", "e">>, <<"b", "r", "a", "n", "d">>, <<"p", "r", "i", "c", "e">>, <<"r", "a", "t", "i", "n", "g">>>>,
      <<<<"n", "7">>, <<"B", "r", "a", "n", "d", "A">>, <<"1", "0", ".", "0", "0">>>>>>

LinesShortName ==
    <<<<<<"r", "a", "t", "i", "n", "g">>, <<"p", "r", "i", "c", "e">>, <<"b", "r", "a", "n", "d">>, <<"n", "a", "m", "e">>>>,
      <<<<"4">>, <<"1", "0">>, <<"B", "r", "a", "n", "d", "A">>>>>>

LinesBadRow ==
    <<<<<<"n", "a", "m", "e">>, <<"b", "r", "a", "n", "d">>, <<"p", "r", "i", "c", "e">>, <<"r", "a", "t", "i", "n", "g">>>>,
      <<<<"n", "8">>, <<"B", "r", "a", "n", "d", "A">>, <<"1">>, <<"4">>>>,
      <<<<"n", "9">>, <<" ", " ">>, <<"1">>, <<"4">>>>>>

LinesNoCol ==
    <<<<<<"n", "a", "m", "e">>, <<"b", "r", "a", "n", "d">>, <<"p", "r", "i", "c", "e">>>>,
      <<<<"n", "1">>, <<"B", "r", "a", "n", "d", "A">>, <<"1">>>>>>

\* A file of text that cp1251 decodes to the given lines and utf-8 cannot
\* decode; "#" stands for a letter outside ASCII.
LinesCp1251 ==
    <<<<<<"n", "a", "m", "e">>, <<"b", "r", "a", "n", "d">>, <<"p", "r", "i", "c", "e">>, <<"r", "a", "t", "i", "n", "g">>>>,
      <<<<"n", "#">>, <<"B", "r", "a", "n", "d", "#">>, <<"7", ".", "0", "0">>, <<"4", ".", "5">>>>>>

File(kind, lines) == [kind |-> kind, lines |-> lines, encoding |-> "utf-8"]

FileIn(encoding, lines) ==
    [kind |-> "file", lines |-> lines, encoding |-> encoding]

FileSystem ==
    [p \in {"a.csv", "b.csv", "blank.csv", "short.csv", "shortname.csv",
            "badrow.csv", "nocol.csv", "empty.csv", "missing.csv", "dir",
            "locked.csv", "cp1251.csv"} |->
        CASE p = "a.csv" -> File("file", LinesA)
          [] p = "b.csv" -> File("file", LinesB)
          [] p = "blank.csv" -> File("file", LinesBlank)
          [] p = "short.csv" -> File("file", LinesShort)
          [] p = "shortname.csv" -> File("file", LinesShortName)
          [] p = "badrow.csv" -> File("file", LinesBadRow)
          [] p = "nocol.csv" -> File("file", LinesNoCol)
          [] p = "empty.csv" -> File("file", <<>>)
          [] p = "missing.csv" -> File("missing", <<>>)
          [] p = "dir" -> File("dir", <<>>)
          [] p = "locked.csv" -> File("unreadable", LinesA)
          [] p = "cp1251.csv" -> FileIn("cp1251", LinesCp1251)]

Paths == DOMAIN FileSystem

\* The lists of paths load is called with.
FileLists == UNION {[1..n -> Paths] : n \in 0..MaxFiles}

(***************************************************************************)
(* CSVReader.load, step by step.                                           *)
(***************************************************************************)
NoResult == [returned |-> FALSE, products |-> <<>>]

LoadInit ==
    /\ loadPc = "idle"
    /\ loadFiles = <<>>
    /\ canonicalFiles = <<>>
    /\ loadIdx = 0
    /\ loadPos = 0
    /\ lineNo = 0
    /\ headerMap = <<>>
    /\ loadDataset = <<>>
    /\ loadResult = NoResult
    /\ loadError = NoError
    /\ openFiles = <<>>
    /\ loadLog = <<>>

Event(op, idx) == [op |-> op, idx |-> idx]

\* An exception leaves load: nothing is returned.
LoadRaise(err) ==
    /\ loadPc' = "raised"
    /\ loadError' = err

\* reader.load(files) is entered: dataset = Dataset()
LoadEnter(files) ==
    /\ loadPc = "idle"
    /\ loadPc' = "ensure"
    /\ loadFiles' = files
    /\ loadIdx' = 1
    /\ loadDataset' = <<>>
    /\ UNCHANGED <<canonicalFiles, loadPos, lineNo, headerMap, loadResult,
                   loadError, openFiles, loadLog>>

\* reader.load(files), called on its own
LoadCall(files) ==
    /\ LoadEnter(files)
    /\ UNCHANGED notLoad

\* canonical_files = [self._ensure_file(p) for p in files], one path
EnsureNext ==
    /\ loadPc = "ensure"
    /\ loadIdx <= Len(loadFiles)
    /\ loadLog' = Append(loadLog, Event("resolve", loadIdx))
    /\ LET path == loadFiles[loadIdx]
           class == EnsureFile(FileSystem[path].kind)
       IN  IF class # "none"
           THEN /\ LoadRaise(Error(class, path, 0, EnsureMessage(class)))
                /\ UNCHANGED <<canonicalFiles, loadIdx>>
           ELSE /\ canonicalFiles' = Append(canonicalFiles, path)
                /\ loadIdx' = loadIdx + 1
                /\ UNCHANGED <<loadPc, loadError>>
    /\ UNCHANGED <<loadFiles, loadPos, lineNo, headerMap, loadDataset,
                   loadResult, openFiles>>
    /\ UNCHANGED notLoad

\* if not canonical_files: raise SchemaError("No input files provided")
EnsureDone ==
    /\ loadPc = "ensure"
    /\ loadIdx > Len(loadFiles)
    /\ IF canonicalFiles = <<>>
       THEN /\ LoadRaise(Error("SchemaError", NoPath, 0,
                               "No input files provided"))
            /\ UNCHANGED loadIdx
       ELSE /\ loadPc' = "next"
            /\ loadIdx' = 1
            /\ UNCHANGED loadError
    /\ UNCHANGED <<loadFiles, canonicalFiles, loadPos, lineNo, headerMap,
                   loadDataset, loadResult, openFiles, loadLog>>
    /\ UNCHANGED notLoad

\* for path in canonical_files: ... with self._open_with_fallback(path) as fh
OpenFile ==
    /\ loadPc = "next"
    /\ loadIdx <= Len(canonicalFiles)
    /\ loadLog' = Append(loadLog, Event("open", loadIdx))
    /\ LET path == canonicalFiles[loadIdx]
           class == OpenError(FileSystem[path].kind)
       IN  IF class # "none"
           THEN /\ LoadRaise(Error(class, path, 0, ""))
                /\ UNCHANGED openFiles
           ELSE /\ openFiles' = Append(openFiles, path)
                /\ loadPc' = "header"
                /\ UNCHANGED loadError
    /\ UNCHANGED <<loadFiles, canonicalFiles, loadIdx, loadPos, lineNo,
                   headerMap, loadDataset, loadResult>>
    /\ UNCHANGED notLoad

\* reader = csv.DictReader(fh); header_map = self._validate_and_map_headers(
\* reader.fieldnames, path); line_no = 1
ReadHeader ==
    /\ loadPc = "header"
    /\ loadLog' = Append(loadLog, Event("header", loadIdx))
    /\ IF DecodeError(FileSystem[canonicalFiles[loadIdx]].encoding) # "none"
       THEN /\ LoadRaise(Error(DecodeError(
                                  FileSystem[canonicalFiles[loadIdx]].encoding),
                               NoPath, 0, "'utf-8' codec can't decode byte"))
            /\ openFiles' = WithExit(openFiles)
            /\ UNCHANGED <<headerMap, lineNo, loadPos>>
       ELSE \E r \in {ValidateAndMapHeaders(
                         FileSystem[canonicalFiles[loadIdx]].lines,
                         canonicalFiles[loadIdx])} :
              IF r.raised # "none"
              THEN /\ LoadRaise(r.error)
                   /\ openFiles' = WithExit(openFiles)
                   /\ UNCHANGED <<headerMap, lineNo, loadPos>>
              ELSE /\ headerMap' = r.headers
                   /\ lineNo' = 1
                   /\ loadPos' = 1
                   /\ loadPc' = "rows"
                   /\ UNCHANGED <<loadError, openFiles>>
    /\ UNCHANGED <<loadFiles, canonicalFiles, loadIdx, loadDataset,
                   loadResult>>
    /\ UNCHANGED notLoad

\* for row in reader: line_no += 1; product = self._parse_row(...);
\* dataset.add(product)
ReadRow ==
    /\ loadPc = "rows"
    /\ \E k \in {NextRowAt(FileSystem[canonicalFiles[loadIdx]].lines,
                            loadPos + 1)} :
          /\ k # 0
          /\ loadPos' = k
          /\ lineNo' = lineNo + 1
          /\ \E r \in {ParseRow(FileSystem[canonicalFiles[loadIdx]].lines[1],
                                FileSystem[canonicalFiles[loadIdx]].lines[k],
                                headerMap, canonicalFiles[loadIdx],
                                lineNo + 1)} :
                IF r.raised # "none"
                THEN /\ LoadRaise(r.error)
                     /\ openFiles' = WithExit(openFiles)
                     /\ UNCHANGED loadDataset
                ELSE /\ loadDataset' = DatasetAdd(loadDataset, r.product)
                     /\ UNCHANGED <<loadPc, loadError, openFiles>>
    /\ loadLog' = Append(loadLog, Event("row", loadIdx))
    /\ UNCHANGED <<loadFiles, canonicalFiles, loadIdx, headerMap, loadResult>>
    /\ UNCHANGED notLoad

\* The reader is exhausted: the with block closes the file and the loop
\* goes on to the next path.
CloseFile ==
    /\ loadPc = "rows"
    /\ LET lines == FileSystem[canonicalFiles[loadIdx]].lines
       IN  /\ NextRowAt(lines, loadPos + 1) = 0
           /\ loadPos' = Len(lines)
    /\ openFiles' = WithExit(openFiles)
    /\ loadLog' = Append(loadLog, Event("close", loadIdx))
    /\ loadIdx' = loadIdx + 1
    /\ loadPc' = "next"
    /\ UNCHANGED <<loadFiles, canonicalFiles, lineNo, headerMap, loadDataset,
                   loadResult, loadError>>
    /\ UNCHANGED notLoad

\* return dataset
LoadReturn ==
    /\ loadPc = "next"
    /\ loadIdx > Len(canonicalFiles)
    /\ loadPc' = "returned"
    /\ loadResult' = [returned |-> TRUE, products |-> loadDataset]
    /\ UNCHANGED <<loadFiles, canonicalFiles, loadIdx, loadPos, lineNo,
                   headerMap, loadDataset, loadError, openFiles, loadLog>>
    /\ UNCHANGED notLoad

LoadNext ==
    \/ \E files \in FileLists : LoadCall(files)
    \/ EnsureNext
    \/ EnsureDone
    \/ OpenFile
    \/ ReadHeader
    \/ ReadRow
    \/ CloseFile
    \/ LoadReturn

(***************************************************************************)
(* _read_single on the files that hold one data row: the four values in    *)
(* any order of the columns, under headers in several spellings, with or   *)
(* without a column of another name.                                       *)
(***************************************************************************)
NameTexts == {<<" ", "n", "1", " ">>, <<" ">>}
BrandTexts == {<<"A", "b">>, <<" ", "A", " ", " ", "b", "\t">>, <<" ", "\t">>}
PriceTexts == {<<"1", "0">>, <<"-", "5">>, <<"1", " ", "2", "3", "4", ",", "5", " ", "$">>, <<>>}
RatingTexts == {<<>>, <<"4", ",", "5">>, <<"6">>, <<" ", "N", "A", " ">>}

RowValues ==
    {<<n, b, p, r>> : n \in NameTexts, b \in BrandTexts,
                      p \in PriceTexts, r \in RatingTexts}

\* The spellings of the header: the names of the four columns, in the
\* order name, brand, price, rating.
HeaderSpellings ==
    {<<ColName, ColBrand, ColPrice, ColRating>>,
     <<<<" ", "N", "a", "m", "e">>, <<"B", "R", "A", "N", "D", " ">>, <<"p", "R", "i", "C", "e">>, <<"\t", "R", "a", "t", "i", "n", "g", " ">>>>}

ColumnOrders == Permutations(1..4)

\* Where the column of another name stands: nowhere, first, amid, last.
ExtraColumnAt == {0, 1, 3, 5}

InsertAt(seq, k, v) ==
    IF k = 0 THEN seq
    ELSE SubSeq(seq, 1, k - 1) \o <<v>> \o SubSeq(seq, k, Len(seq))

\* The line with the four cells in the given order and, for k > 0, the
\* cell extra as the k-th.
Layout(cells, order, k, extra) ==
    InsertAt([i \in 1..4 |-> cells[order[i]]], k, extra)

RowPath == "row.csv"

RowFileOf(values, spelling, order, k) ==
    <<Layout(spelling, order, k, <<"x">>), Layout(values, order, k, <<"y">>)>>

NoRead == [raised |-> "none", error |-> NoError, products |-> <<>>]

RowInit ==
    /\ rowState = "idle"
    /\ rowIn = <<>>
    /\ rowFile = <<>>
    /\ rowOut = NoRead

\* reader.load([path]) for the file of the given values and layout:
\* _read_single validates the header, parses the row and adds the Product.
RowRead(values, spelling, order, k) ==
    /\ rowState = "idle"
    /\ rowState' = "done"
    /\ rowIn' = values
    /\ \E f \in {RowFileOf(values, spelling, order, k)} :
          /\ rowFile' = f
          /\ \E h \in {ValidateAndMapHeaders(f, RowPath)} :
                IF h.raised # "none"
                THEN rowOut' = [raised |-> h.raised, error |-> h.error,
                                products |-> <<>>]
                ELSE \E r \in {ParseRow(f[1], f[2], h.headers, RowPath, 2)} :
                       IF r.raised # "none"
                       THEN rowOut' = [raised |-> r.raised, error |-> r.error,
                                       products |-> <<>>]
                       ELSE rowOut' = [raised |-> "none", error |-> NoError,
                                       products |->
                                          DatasetAdd(<<>>, r.product)]
    /\ UNCHANGED notRow

RowNext ==
    \/ \E values \in RowValues, spelling \in HeaderSpellings,
          order \in ColumnOrders, k \in ExtraColumnAt :
          RowRead(values, spelling, order, k)

(***************************************************************************)
(* The functions of normalizer.py on the texts of up to MaxText characters *)
(* of an alphabet, and on some longer texts.                               *)
(***************************************************************************)
TextsUpTo(alphabet, n) == UNION {[1..k -> alphabet] : k \in 0..n}

RatingAlphabet == {"0", "5", "6", ".", ",", " ", "-", "n", "a", "N", "/"}
RatingSamples ==
    {<<"n", "o", "n", "e">>, <<"N", "U", "L", "L">>,
     <<" ", "n", "/", "a", " ">>, <<"N", "o", "n", "e">>,
     <<"n", "a", "n">>, <<"i", "n", "f">>, <<"4", ",", "5">>,
     <<"5", ".", "0", "1">>, <<"5", ".", "0", "0">>,
     <<"4", ".", "9", "9">>, <<"1", "e", "1">>, <<"5", "e", "0">>,
     <<"0", "_", "5">>, <<"-", "0", ".", "0">>, <<"+", "5", ".", "0">>,
     <<" ", "3", ".", "5", "\t">>, <<"n", "u", "l", "l", " ">>,
     <<"n", "u", "l", "l", "s">>, <<"n", ".", "a", ".">>,
     <<"0", ",", "0", ",">>}
RatingInputs == TextsUpTo(RatingAlphabet, MaxText) \cup RatingSamples

PriceAlphabet == {"1", "2", ",", ".", " ", "-", "$", "_"}
PriceSamples ==
    {<<"1", " ", "2", "3", "4", ",", "5", "0", " ", "$">>,
     <<"1", " ", "2", "3", "4", ",", "5", "0">>,
     <<"$", "1", "_", "2", "3", "4">>, <<"1", " ", "2", "3", "4", "5">>,
     <<"1", "2", " ", "3", "4", "5", " ", "6", "7", "8">>,
     <<"1", " ", "2", "3", "4", " ", "5", "6", "7", ",", "8">>,
     <<"1", ",", "2", "3", "4", ".", "5", "0">>, <<"1", "e", "5">>,
     <<"$", " ", "5", " ">>, <<"-", "5", " ", "$">>, <<"-", " ", "5">>,
     <<"1", "\t", "2", "3", "4">>, <<"1", "2", " ", "3", "4">>,
     <<"1", " ", "2", "3", "4", ".">>, <<"U", "S", "D">>,
     <<"0", ",", "0", "0">>, <<"-", "0", ".", "0">>,
     <<"1", "2", "3", "4", " ">>, <<"1", " ", "2", "3", "4", " ", "5">>}
PriceInputs == TextsUpTo(PriceAlphabet, MaxText) \cup PriceSamples

BrandAlphabet == {"A", "b", " ", "\t"}
BrandSamples ==
    {<<" ", " ", "A", "d", "i", "D", "A", "S", " ", " ">>,
     <<" ", " ", " ">>, <<"A", "b", " ", " ", "C", "\t", " ", "d">>,
     <<"a", " ", "b", " ", "c">>, <<"A", " ", "\t", " ", "B">>,
     <<" ", "\t", " ", "\t">>}
BrandInputs == TextsUpTo(BrandAlphabet, MaxText) \cup BrandSamples

NormInit ==
    /\ normFn = "none"
    /\ normIn = <<>>
    /\ normOut = Return(<<>>)

\* parse_rating(raw)
CallParseRating(raw) ==
    /\ normFn = "none"
    /\ normFn' = "parse_rating"
    /\ normIn' = raw
    /\ normOut' = ParseRating(raw)
    /\ UNCHANGED notNorm

\* parse_price(raw)
CallParsePrice(raw) ==
    /\ normFn = "none"
    /\ normFn' = "parse_price"
    /\ normIn' = raw
    /\ normOut' = ParsePrice(raw)
    /\ UNCHANGED notNorm

\* normalize_brand(raw)
CallNormalizeBrand(raw) ==
    /\ normFn = "none"
    /\ normFn' = "normalize_brand"
    /\ normIn' = raw
    /\ normOut' = NormalizeBrand(raw)
    /\ UNCHANGED notNorm

NormNext ==
    \/ \E raw \in RatingInputs : CallParseRating(raw)
    \/ \E raw \in PriceInputs : CallParsePrice(raw)
    \/ \E raw \in BrandInputs : CallNormalizeBrand(raw)

(***************************************************************************)
(* reports/registry.py                                                     *)
(***************************************************************************)
AverageRating == <<"a", "v", "e", "r", "a", "g", "e", "-", "r", "a", "t", "i", "n", "g">>

\* The report classes: each with its attribute NAME, a str or not.
ReportClass(cls, isStr, text) ==
    [cls |-> cls, name |-> [isStr |-> isStr, text |-> text]]

AverageRatingReport == ReportClass("AverageRatingReport", TRUE, AverageRating)

ReportClasses ==
    {AverageRatingReport,
     ReportClass("DummyReport", TRUE, <<"d", "u", "m", "m", "y">>),
     ReportClass("OtherDummyReport", TRUE, <<" ", "D", "u", "m", "m", "y", " ">>),
     ReportClass("BlankReport", TRUE, <<" ", "\t">>),
     ReportClass("EmptyReport", TRUE, <<>>),
     ReportClass("NoNameReport", FALSE, <<>>)}

\* The names create is asked for.
ReportNames ==
    {AverageRating, <<" ", "A", "v", "e", "r", "a", "g", "e", "-", "R", "a", "t", "i", "n", "g">>, <<"d", "u", "m", "m", "y">>, <<"D", "U", "M", "M", "Y", " ">>, <<"n", "o", "p", "e">>, <<>>}

\* self._registry = {}
EmptyRegistry == <<>>

\* _default_registry = None
NoRegistry == 0

\* key = name.strip().lower() in register
RegisterKey(name) == LowerText(StripText(name))

\* A register that takes every key for free.
AlreadyRegistered_Never(registry, key) == FALSE

\* key in self._registry
AlreadyRegistered(registry, key) == key \in DOMAIN registry

\* self._registry[key] = report_cls
RegistryPut(registry, key, cls) ==
    [k \in DOMAIN registry \cup {key} |-> IF k = key THEN cls ELSE registry[k]]

\* ReportRegistry.register on the dict of a registry
Register(registry, report_cls) ==
    IF ~report_cls.name.isStr \/ report_cls.name.text = <<>>
    THEN [raised |-> "ValueError",
          msg |-> "Report class must define string NAME",
          registry |-> registry]
    ELSE IF RegisterKey(report_cls.name.text) = <<>>
    THEN [raised |-> "ValueError", msg |-> "Report NAME must be non-empty",
          registry |-> registry]
    ELSE IF AlreadyRegistered(registry, RegisterKey(report_cls.name.text))
    THEN [raised |-> "ValueError", msg |-> "Report already registered",
          registry |-> registry]
    ELSE [raised |-> "none", msg |-> "",
          registry |-> RegistryPut(registry,
                                   RegisterKey(report_cls.name.text),
                                   report_cls.cls)]

\* A lookup of the name as it is given.
CreateKey_AsGiven(name) == name

\* key = name.strip().lower() in create
CreateKey(name) == LowerText(StripText(name))

\* ReportRegistry.create: an instance of the class, or ReportNotFoundError
\* with the repr of name in its message.
Create(registry, name) ==
    IF CreateKey(name) \in DOMAIN registry
    THEN [raised |-> "none", named |-> <<>>,
          instanceOf |-> registry[CreateKey(name)]]
    ELSE [raised |-> "ReportNotFoundError", named |-> name,
          instanceOf |-> "none"]

\* A default registry that is never there.
DefaultMissing_Always(d) == TRUE

\* if _default_registry is None
DefaultMissing(d) == d = NoRegistry

RegResult(op, reg, arg, raised, value) ==
    [op |-> op, reg |-> reg, arg |-> arg, raised |-> raised, value |-> value]

RegInit ==
    /\ regHeap = <<>>
    /\ defaultRegistry = NoRegistry
    /\ regResult = RegResult("none", 0, <<>>, "none", <<>>)
    /\ regGiven = NoRegistry
    /\ regGivenEver = {}
    /\ regRegistered = <<>>

\* reg = ReportRegistry()
RegNew ==
    /\ Len(regHeap) < MaxRegistries
    /\ regHeap' = Append(regHeap, EmptyRegistry)
    /\ regRegistered' = Append(regRegistered, {})
    /\ regResult' = RegResult("new", Len(regHeap) + 1, <<>>, "none", <<>>)
    /\ UNCHANGED <<defaultRegistry, regGiven, regGivenEver>>
    /\ UNCHANGED notReg

\* reg.register(report_cls) on a registry the caller holds
RegRegister(reg, report_cls) ==
    /\ reg \in 1..Len(regHeap)
    /\ \E r \in {Register(regHeap[reg], report_cls)} :
          /\ regHeap' = [regHeap EXCEPT ![reg] = r.registry]
          /\ regRegistered' =
                IF r.raised = "none"
                THEN [regRegistered EXCEPT
                        ![reg] = @ \cup {RegisterKey(report_cls.name.text)}]
                ELSE regRegistered
          /\ regResult' = RegResult("register", reg, report_cls, r.raised,
                                    r.msg)
    /\ UNCHANGED <<defaultRegistry, regGiven, regGivenEver>>
    /\ UNCHANGED notReg

\* reg.create(name) on a registry the caller holds
RegCreate(reg, name) ==
    /\ reg \in 1..Len(regHeap)
    /\ \E r \in {Create(regHeap[reg], name)} :
          regResult' = RegResult("create", reg, name, r.raised,
                                 [named |-> r.named,
                                  instanceOf |-> r.instanceOf])
    /\ UNCHANGED <<regHeap, defaultRegistry, regGiven, regGivenEver,
                   regRegistered>>
    /\ UNCHANGED notReg

\* get_default_registry(), what it does to the registries
GetDefaultRegistryCall ==
    /\ IF DefaultMissing(defaultRegistry)
       THEN /\ Len(regHeap) < MaxRegistries
            /\ regHeap' = Append(regHeap,
                                 Register(EmptyRegistry,
                                          AverageRatingReport).registry)
            /\ regRegistered' = Append(regRegistered, {})
            /\ defaultRegistry' = Len(regHeap) + 1
       ELSE UNCHANGED <<regHeap, regRegistered, defaultRegistry>>
    /\ regGiven' = defaultRegistry'
    /\ regGivenEver' = regGivenEver \cup {defaultRegistry'}
    /\ regResult' = RegResult("get_default_registry", defaultRegistry', <<>>,
                              "none", <<>>)

\* get_default_registry(), called on its own
GetDefaultRegistry ==
    /\ GetDefaultRegistryCall
    /\ UNCHANGED notReg

\* reset_default_registry()
ResetDefaultRegistry ==
    /\ defaultRegistry' = NoRegistry
    /\ regGiven' = NoRegistry
    /\ regResult' = RegResult("reset_default_registry", 0, <<>>, "none", <<>>)
    /\ UNCHANGED <<regHeap, regGivenEver, regRegistered>>
    /\ UNCHANGED notReg

RegNext ==
    \/ RegNew
    \/ \E reg \in 1..MaxRegistries, report_cls \in ReportClasses :
          RegRegister(reg, report_cls)
    \/ \E reg \in 1..MaxRegistries, name \in ReportNames :
          RegCreate(reg, name)
    \/ GetDefaultRegistry
    \/ ResetDefaultRegistry

(***************************************************************************)
(* presenter.py                                                            *)
(***************************************************************************)
\* The characters of the texts at hand in the order of their code points.
CodeOrder ==
    <<"\t", " ", "$", ",", "-", ".",
      "0", "1", "2", "3", "4", "5", "6", "7", "8", "9",
      "A", "B", "C", "D", "E", "F", "G", "H", "I", "J", "K", "L", "M",
      "N", "O", "P", "Q", "R", "S", "T", "U", "V", "W", "X", "Y", "Z", "_",
      "a", "b", "c", "d", "e", "f", "g", "h", "i", "j", "k", "l", "m",
      "n", "o", "p", "q", "r", "s", "t", "u", "v", "w", "x", "y", "z", "#">>

\* ord(c)
Ord(c) == CHOOSE i \in 1..Len(CodeOrder) : CodeOrder[i] = c

\* s < t on str: by the first character that differs, a prefix first.
RECURSIVE TextLess(_, _)
TextLess(s, t) ==
    IF t = <<>> THEN FALSE
    ELSE IF s = <<>> THEN TRUE
    ELSE IF Head(s) # Head(t) THEN Ord(Head(s)) < Ord(Head(t))
    ELSE TextLess(Tail(s), Tail(t))

SortFields == {"brand", "avg_rating", "items"}

\* key(r1) < key(r2) for the key function _get_sort_key(sort_by) returns.
KeyLess(sort_by, r1, r2) ==
    CASE sort_by = "brand" -> TextLess(r1.brand, r2.brand)
      [] sort_by = "avg_rating" -> r1.avg_rating < r2.avg_rating
      [] sort_by = "items" -> r1.items < r2.items

\* Whether r goes before e in sorted(..., reverse=descending).
GoesBefore(sort_by, descending, r, e) ==
    IF descending THEN KeyLess(sort_by, e, r) ELSE KeyLess(sort_by, r, e)

\* r put into the sorted list `ordered`, behind every element it does not
\* go before: the sort is stable, with and without reverse.
RECURSIVE InsertOrdered(_, _, _, _)
InsertOrdered(ordered, r, sort_by, descending) ==
    IF ordered = <<>> THEN <<r>>
    ELSE IF GoesBefore(sort_by, descending, r, Head(ordered))
         THEN <<r>> \o ordered
         ELSE <<Head(ordered)>>
              \o InsertOrdered(Tail(ordered), r, sort_by, descending)

\* sorted(rows, key=key_func, reverse=descending): a new list.
RECURSIVE SortedFrom(_, _, _, _, _)
SortedFrom(rows, i, ordered, sort_by, descending) ==
    IF i > Len(rows) THEN ordered
    ELSE SortedFrom(rows, i + 1,
                    InsertOrdered(ordered, rows[i], sort_by, descending),
                    sort_by, descending)

Sorted(rows, sort_by, descending) ==
    SortedFrom(rows, 1, <<>>, sort_by, descending)

\* A limit that is applied only when it is truthy.
ApplyLimit_Truthy(ordered, limit) ==
    IF limit.has /\ limit.val > 0
    THEN SubSeq(ordered, 1, IF limit.val < Len(ordered) THEN limit.val
                            ELSE Len(ordered))
    ELSE ordered

\* if limit is not None and limit >= 0: ordered = ordered[:limit]
ApplyLimit(ordered, limit) ==
    IF limit.has /\ limit.val >= 0
    THEN SubSeq(ordered, 1, IF limit.val < Len(ordered) THEN limit.val
                            ELSE Len(ordered))
    ELSE ordered

DigitChars == <<"0", "1", "2", "3", "4", "5", "6", "7", "8", "9">>

\* str(n) for n >= 0
RECURSIVE IntText(_)
IntText(n) ==
    IF n < 10 THEN <<DigitChars[n + 1]>>
    ELSE IntText(n \div 10) \o <<DigitChars[(n % 10) + 1]>>

\* The integer nearest to num/den (num >= 0, den > 0), ties to even.
RoundHalfEven(num, den) ==
    LET k == num \div den
        rem == num - k * den
    IN  IF 2 * rem > den \/ (2 * rem = den /\ k % 2 = 1) THEN k + 1 ELSE k

\* f"{x:.2f}": the float's exact value rounded to two decimals.
Format2f(x) ==
    LET mag == IF x < 0 THEN 0 - x ELSE x
        h == RoundHalfEven(mag * 100, Unit)
    IN  (IF x < 0 THEN <<"-">> ELSE <<>>)
        \o IntText(h \div 100)
        \o <<".", DigitChars[((h \div 10) % 10) + 1], DigitChars[(h % 10) + 1]>>

\* table.append((r.brand, avg_display, r.items))
TableRow(r) == <<r.brand, Format2f(r.avg_rating), r.items>>

TableHeaders == <<"brand", "avg_rating", "items">>

\* TablePresenter.render_brand_stats: the headers and the rows it hands to
\* tabulate, which lays them out as they come.
RenderBrandStats(rows, sort_by, descending, limit) ==
    IF sort_by \notin SortFields
    THEN [raised |-> "ValueError", headers |-> <<>>, table |-> <<>>]
    ELSE LET ordered == ApplyLimit(Sorted(rows, sort_by, descending), limit)
         IN  [raised |-> "none", headers |-> TableHeaders,
              table |-> [j \in 1..Len(ordered) |-> TableRow(ordered[j])]]

(***************************************************************************)
(* The calls of render_brand_stats: lists of BrandStats with equal and     *)
(* with different brands, ratings and item counts.                         *)
(***************************************************************************)
RenderStats ==
    {BrandStats(<<"a", "l">>, FloatOfTenths(42), 3),
     BrandStats(<<"g">>, FloatOfTenths(40), 10),
     BrandStats(<<"b">>, FloatOfTenths(47), 2),
     BrandStats(<<"a">>, FloatOfTenths(42), 2),
     BrandStats(<<"b">>, 5 * Unit, 10)}

RenderLists == UNION {[1..n -> RenderStats] : n \in 0..MaxRows}

RenderSortFields == SortFields \cup {"price"}

RenderLimits == {None, Some(0 - 1), Some(0), Some(1), Some(2), Some(5)}

NoRender == [raised |-> "none", headers |-> <<>>, table |-> <<>>]

NoRenderArgs ==
    [called |-> FALSE, rows |-> <<>>, sort_by |-> "avg_rating",
     descending |-> TRUE, limit |-> None]

RenderInit ==
    /\ renderRows = <<>>
    /\ renderIn = NoRenderArgs
    /\ renderOut = NoRender

\* presenter.render_brand_stats(rows, sort_by=..., descending=...,
\* limit=...): rows is read, never written.
CallRender(rows, sort_by, descending, limit) ==
    /\ ~renderIn.called
    /\ renderIn' = [called |-> TRUE, rows |-> rows, sort_by |-> sort_by,
                    descending |-> descending, limit |-> limit]
    /\ \E r \in {RenderBrandStats(rows, sort_by, descending, limit)} :
          renderOut' = r
    /\ renderRows' = rows
    /\ UNCHANGED notRender

RenderNext ==
    \E rows \in RenderLists, sort_by \in RenderSortFields,
       descending \in BOOLEAN, limit \in RenderLimits :
        CallRender(rows, sort_by, descending, limit)

(***************************************************************************)
(* cli.py                                                                  *)
(***************************************************************************)
\* __version__
Version == "1.0.0"

\* What parser.parse_args(argv) makes of argv: the Namespace, or the
\* parser's own error (usage on stderr, SystemExit(2)) when --sort is not
\* one of its choices or an argument is none the parser knows.  The parser
\* has the options --files, --report, --sort, --limit, --tablefmt, --debug
\* and --version, and none for the direction of the order.
ParseArgs(argv) ==
    IF argv.sort \notin SortFields
    THEN [ok |-> FALSE, error |-> "argument --sort: invalid choice"]
    ELSE IF argv.rest # <<>>
    THEN [ok |-> FALSE, error |-> "unrecognized arguments"]
    ELSE [ok |-> TRUE, error |-> ""]

\* A run that takes every limit.
LimitRejected_Never(limit) == FALSE

\* if limit is not None and limit < 0
LimitRejected(limit) == limit.has /\ limit.val < 0

\* A run that asks the registry while load is still at work.
LoadReturned_Anytime(pc) == TRUE

\* reader.load(files) has returned: the next statement is the lookup of
\* the report.
LoadReturned(pc) == pc = "returned"

\* except CsvReporterError
DomainErrors ==
    {"CsvReporterError", "SchemaError", "DataError", "ReportNotFoundError",
     "CliError"}

\* except (FileNotFoundError, PermissionError, IsADirectoryError)
BoundaryErrors == {"FileNotFoundError", "PermissionError", "IsADirectoryError"}

\* A run without its last except clause.
CaughtByRun_NoLastResort(class) == class \in DomainErrors \cup BoundaryErrors

\* The except clauses of run take every Exception.
CaughtByRun(class) == TRUE

\* The lines on sys.stdout and sys.stderr.
Line(kind, text) == [kind |-> kind, text |-> text]

\* _emit_error(message): sys.stderr.write(f"Error: {message}\n")
EmitError(message) == Line("error", <<"Error: ">> \o message)

\* str(err) of the exception that left load.
ErrorText(err) ==
    IF err.line # 0 THEN <<err.path, err.line, err.msg>>
    ELSE IF err.path # NoPath THEN <<err.msg, err.path>>
    ELSE <<err.msg>>

\* _LOG.exception("Unhandled error"): the root logger writes to sys.stderr
\* (logging_utils.py), the message and the traceback of err.
LogException(err) ==
    <<Line("log", <<"[ERROR] Unhandled error">>),
      Line("traceback", <<err.class, err.msg>>)>>

\* The except clauses of run on the exception err: what goes to stderr.
HandleError(err) ==
    IF err.class \in DomainErrors \cup BoundaryErrors
    THEN <<EmitError(ErrorText(err))>>
    ELSE LogException(err)
         \o <<EmitError(<<"Unexpected error: ">> \o ErrorText(err))>>

\* The [INFO] lines of csv_reader.py, which the root logger writes to
\* sys.stderr: LogTimer around each file and the row counts.
RECURSIVE InfoLines(_, _)
InfoLines(log, files) ==
    IF log = <<>> THEN <<>>
    ELSE LET e == Head(log)
             here ==
                CASE e.op = "open" ->
                        <<Line("log", <<"[INFO] read_csv", files[e.idx]>>)>>
                  [] e.op = "close" ->
                        <<Line("log", <<"[INFO] Rows read from", files[e.idx]>>),
                          Line("log", <<"[INFO] read_csv done", files[e.idx]>>)>>
                  [] OTHER -> <<>>
         IN  here \o InfoLines(Tail(log), files)

\* What logging has written to sys.stderr when load is left.
LoadLogLines(log, files, pc) ==
    InfoLines(log, files)
    \o (IF pc = "returned"
        THEN <<Line("log", <<"[INFO] Total rows loaded">>)>>
        ELSE IF \E i \in 1..Len(log) : log[i].op = "open"
        THEN <<Line("log", <<"[INFO] read_csv failed">>)>>
        ELSE <<>>)

\* print(table)
TableLine(r) == [kind |-> "table", headers |-> r.headers, rows |-> r.table]

\* Lines 149-159 of run on the Dataset load returned, with the registry
\* get_default_registry gave: create, generate, render, print.
Report(registry, args, products) ==
    LET created == Create(registry, args.report)
        stats == ComputeBrandAvgRating(products)
        table == RenderBrandStats(stats.out, args.sort, TRUE, args.limit)
    IN  IF created.raised # "none"
        THEN [code |-> 1, out |-> <<>>,
              err |-> HandleError(Error(created.raised, NoPath, 0,
                                        <<"Unknown report", created.named>>))]
        ELSE IF stats.raised # "none"
        THEN [code |-> 1, out |-> <<>>,
              err |-> HandleError(Error(stats.raised, NoPath, 0,
                                        "Invariant violated"))]
        ELSE IF table.raised # "none"
        THEN [code |-> 1, out |-> <<>>,
              err |-> HandleError(Error(table.raised, NoPath, 0,
                                        "Unsupported sort field"))]
        ELSE [code |-> 0, out |-> <<TableLine(table)>>, err |-> <<>>]

(***************************************************************************)
(* The runs of the command: argument lists over input files that load,     *)
(* that fail in each way, and that do not exist.                           *)
(***************************************************************************)
CliPaths ==
    {"a.csv", "b.csv", "badrow.csv", "nocol.csv", "missing.csv", "short.csv",
     "cp1251.csv"}

\* No --files, one file of each kind, and pairs of files of which the
\* second, or the first, fails.
CliFileLists ==
    {<<>>} \cup {<<p>> : p \in CliPaths}
    \cup {<<"a.csv", "b.csv">>, <<"a.csv", "nocol.csv">>,
          <<"a.csv", "short.csv">>, <<"a.csv", "cp1251.csv">>,
          <<"badrow.csv", "missing.csv">>}

CliLimits == {None, Some(0 - 1), Some(1)}

CliReports == {AverageRating, <<"n", "o", "p", "e">>}

CliSorts == SortFields \cup {"price"}

\* The arguments after the known options: none, or the flag that asks for
\* ascending order.
CliRest == {<<>>, <<"--ascending">>}

Argvs ==
    [version : BOOLEAN, files : CliFileLists, limit : CliLimits,
     report : CliReports, sort : CliSorts, rest : CliRest]

NoArgv ==
    [version |-> FALSE, files |-> <<>>, limit |-> None,
     report |-> AverageRating, sort |-> "avg_rating", rest |-> <<>>]

NoCode == 0 - 1

CliInit ==
    /\ cliPc = "idle"
    /\ cliArgs = NoArgv
    /\ cliOut = <<>>
    /\ cliErr = <<>>
    /\ cliCode = NoCode
    /\ cliShown = {}

\* run leaves with `code`, having written out and err.
CliLeave(pc, code, out, err) ==
    /\ cliPc' = pc
    /\ cliCode' = code
    /\ cliOut' = out
    /\ cliErr' = err

\* run(argv), lines 117-146: from parse_args to the call of reader.load.
CliRun(argv) ==
    /\ cliPc = "idle"
    /\ cliArgs' = argv
    /\ IF ~ParseArgs(argv).ok
       THEN /\ CliLeave("exited", 2, <<>>,
                        <<Line("usage", <<"usage: csvreporter">>),
                          Line("usage", <<"csvreporter: error: ",
                                          ParseArgs(argv).error>>)>>)
            /\ UNCHANGED loadVars
       ELSE IF argv.version
       THEN /\ CliLeave("returned", 0, <<Line("version", <<Version>>)>>, <<>>)
            /\ UNCHANGED loadVars
       ELSE IF argv.files = <<>>
       THEN /\ CliLeave("returned", 1, <<>>,
                        <<EmitError(<<"No input files provided. Use --files FILE [FILE ...].">>)>>)
            /\ UNCHANGED loadVars
       ELSE IF LimitRejected(argv.limit)
       THEN /\ CliLeave("returned", 1, <<>>,
                        <<EmitError(<<"--limit must be >= 0">>)>>)
            /\ UNCHANGED loadVars
       ELSE /\ cliPc' = "load"
            /\ LoadEnter(argv.files)
            /\ UNCHANGED <<cliOut, cliErr, cliCode>>
    /\ UNCHANGED <<cliShown, aggVars, rowVars, normVars, regVars, renderVars>>

\* An exception left reader.load: the except clauses of run.
CliLoadRaised ==
    /\ cliPc = "load"
    /\ loadPc = "raised"
    /\ IF CaughtByRun(loadError.class)
       THEN CliLeave("returned", 1, <<>>,
                     LoadLogLines(loadLog, canonicalFiles, loadPc)
                     \o HandleError(loadError))
       ELSE CliLeave("raised", NoCode, <<>>,
                     LoadLogLines(loadLog, canonicalFiles, loadPc))
    /\ cliShown' =
          IF loadError.class \in DomainErrors \cup BoundaryErrors
          THEN cliShown
          ELSE cliShown \cup {EmitError(<<"Unexpected error: ">>
                                        \o ErrorText(loadError))}
    /\ UNCHANGED <<cliArgs, aggVars, loadVars, rowVars, normVars, regVars,
                   renderVars>>

\* reader.load returned: lines 149-159 of run.
CliReport ==
    /\ cliPc = "load"
    /\ LoadReturned(loadPc)
    /\ GetDefaultRegistryCall
    /\ \E r \in {Report(regHeap'[defaultRegistry'], cliArgs,
                        loadResult.products)} :
          CliLeave("returned", r.code, r.out,
                   LoadLogLines(loadLog, canonicalFiles, loadPc) \o r.err)
    /\ UNCHANGED <<cliArgs, cliShown, aggVars, loadVars, rowVars, normVars,
                   renderVars>>

\* The process is over; the command is run again in a new process.
NewProcess ==
    /\ cliPc \in {"returned", "exited", "raised"}
    /\ cliPc' = "idle"
    /\ cliArgs' = NoArgv
    /\ cliOut' = <<>>
    /\ cliErr' = <<>>
    /\ cliCode' = NoCode
    /\ loadPc' = "idle"
    /\ loadFiles' = <<>>
    /\ canonicalFiles' = <<>>
    /\ loadIdx' = 0
    /\ loadPos' = 0
    /\ lineNo' = 0
    /\ headerMap' = <<>>
    /\ loadDataset' = <<>>
    /\ loadResult' = NoResult
    /\ loadError' = NoError
    /\ openFiles' = <<>>
    /\ loadLog' = <<>>
    /\ regHeap' = <<>>
    /\ defaultRegistry' = NoRegistry
    /\ regResult' = RegResult("none", 0, <<>>, "none", <<>>)
    /\ regGiven' = NoRegistry
    /\ regGivenEver' = {}
    /\ regRegistered' = <<>>
    /\ UNCHANGED <<cliShown, aggVars, rowVars, normVars, renderVars>>

CliNext ==
    \/ \E argv \in Argvs : CliRun(argv)
    \/ EnsureNext
    \/ EnsureDone
    \/ OpenFile
    \/ ReadHeader
    \/ ReadRow
    \/ CloseFile
    \/ LoadReturn
    \/ CliLoadRaised
    \/ CliReport
    \/ NewProcess

(***************************************************************************)
(* The aggregator's inputs: what a caller can put into a Dataset.  Product *)
(* validates nothing, so a rating outside [0, 5] is a possible input.      *)
(***************************************************************************)
AggBrands == {<<"a">>, <<"b">>}
AggRatings ==
    {None, Some(0), Some(FloatOfTenths(1)), Some(FloatOfTenths(31)),
     Some(5 * Unit), Some(6 * Unit), Some(0 - Unit)}
AggProducts ==
    {Product(<<"n">>, b, 10 * Unit, r) : b \in AggBrands, r \in AggRatings}
    \cup {Product(<<"n">>, <<"a">>, 0 - Unit, None)}

AggInit ==
    /\ dataset = <<>>
    /\ aggState = "idle"
    /\ aggOut = <<>>
    /\ aggError = "none"
    /\ aggAdded = <<>>

\* ds.add(Product(...)) before the aggregation.
AggAdd(p) ==
    /\ aggState = "idle"
    /\ Len(dataset) < MaxRecords
    /\ dataset' = DatasetAdd(dataset, p)
    /\ aggAdded' = Append(aggAdded, p)
    /\ UNCHANGED <<aggState, aggOut, aggError>>
    /\ UNCHANGED notAgg

\* svc.compute_brand_avg_rating(ds)
AggCompute ==
    /\ aggState = "idle"
    /\ LET r == ComputeBrandAvgRating(dataset)
       IN  /\ aggState' = IF r.raised = "none" THEN "returned" ELSE "raised"
           /\ aggOut' = r.out
           /\ aggError' = r.raised
    /\ UNCHANGED <<dataset, aggAdded>>
    /\ UNCHANGED notAgg

AggNext ==
    \/ \E p \in AggProducts : AggAdd(p)
    \/ AggCompute

Init ==
    /\ AggInit /\ LoadInit /\ RowInit /\ NormInit /\ RegInit /\ RenderInit
    /\ CliInit

\* The aggregator on the Datasets a caller builds.
SpecAgg == Init /\ [][AggNext]_vars

\* CSVReader.load on the lists of input files.
SpecLoad == Init /\ [][LoadNext]_vars

\* CSVReader._read_single on the one-row files of every layout.
SpecRow == Init /\ [][RowNext]_vars

\* normalize_brand, parse_price and parse_rating on the input texts.
SpecNorm == Init /\ [][NormNext]_vars

\* The calls on ReportRegistry objects and on the default registry.
SpecReg == Init /\ [][RegNext]_vars

\* TablePresenter.render_brand_stats on the lists of BrandStats.
SpecRender == Init /\ [][RenderNext]_vars

\* The runs of the command, one process after another.
SpecCli == Init /\ [][CliNext]_vars

(***************************************************************************)
(* Claims about the aggregator, checked under SpecAgg.                     *)
(***************************************************************************)
\* The ratings present on the records of `brand`, in record order.
RECURSIVE PresentRatings(_, _)
PresentRatings(products, brand) ==
    IF products = <<>>
    THEN <<>>
    ELSE LET p == Head(products)
             rest == PresentRatings(Tail(products), brand)
         IN  IF p.brand = brand /\ p.rating.has
             THEN <<p.rating.val>> \o rest
             ELSE rest

\* The sum of a sequence of floats in exact arithmetic.
RECURSIVE ExactSum(_)
ExactSum(rs) == IF rs = <<>> THEN 0 ELSE Head(rs) + ExactSum(Tail(rs))

\* The closed interval [0, 5] of the claims.
WithinZeroToFive(r) == r >= 0 /\ r <= 5 * Unit

Abs(x) == IF x < 0 THEN 0 - x ELSE x

AllPresentInRange(products) ==
    \A i \in 1..Len(products) :
        products[i].rating.has => WithinZeroToFive(products[i].rating.val)

BrandsIn(products) == {products[i].brand : i \in 1..Len(products)}

EntriesFor(out, brand) == {j \in 1..Len(out) : out[j].brand = brand}

\* avg is the mean of the n floats rs up to the rounding of n float
\* operations: n * avg is within a relative 2n * 2^-MantBits of the exact
\* sum (plus one quantum per operation); with one rating it is that rating.
MeanOf(avg, rs) ==
    LET n == Len(rs)
        s == ExactSum(rs)
    IN  /\ Abs(n * avg - s) <= (2 * n * s) \div Pow2(MantBits) + n
        /\ n = 1 => avg = rs[1]

\* C1: for a Dataset whose present ratings all lie in [0, 5],
\* compute_brand_avg_rating returns, and its output has exactly one
\* BrandStats for each brand with at least one rated record, whose items is
\* the number of that brand's rated records and whose avg_rating is the mean
\* of their ratings; records without a rating add to neither sum nor count,
\* and a brand without a rated record has no entry.
C1_MeanOverRatedRecords ==
    (aggState # "idle" /\ AllPresentInRange(dataset)) =>
        /\ aggState = "returned"
        /\ \A j \in 1..Len(aggOut) : aggOut[j].brand \in BrandsIn(dataset)
        /\ \A b \in BrandsIn(dataset) :
              LET rs == PresentRatings(dataset, b)
                  js == EntriesFor(aggOut, b)
              IN  IF rs = <<>>
                  THEN js = {}
                  ELSE /\ Cardinality(js) = 1
                       /\ \A j \in js :
                            /\ aggOut[j].items = Len(rs)
                            /\ MeanOf(aggOut[j].avg_rating, rs)

\* A brand with both rated and unrated records was aggregated.
C1_Witness ==
    /\ aggState = "returned"
    /\ \E b \in BrandsIn(dataset) :
          /\ Len(PresentRatings(dataset, b)) >= 2
          /\ \E i \in 1..Len(dataset) :
                dataset[i].brand = b /\ ~dataset[i].rating.has

\* C2: every BrandStats returned has 0 <= avg_rating <= 5 and items >= 1,
\* and a brand all of whose records lack a rating is not in the output.
C2_StatsInRange ==
    aggState = "returned" =>
        \A j \in 1..Len(aggOut) :
            /\ 0 <= aggOut[j].avg_rating
            /\ aggOut[j].avg_rating <= 5 * Unit
            /\ aggOut[j].items >= 1
            /\ PresentRatings(dataset, aggOut[j].brand) # <<>>

\* The output is not empty while the Dataset holds a brand whose records
\* all lack a rating.
C2_Witness ==
    /\ aggState = "returned"
    /\ aggOut # <<>>
    /\ \E b \in BrandsIn(dataset) : PresentRatings(dataset, b) = <<>>

\* The sequences that are `products` in another order.
Reorderings(products) ==
    LET n == Len(products)
        bij == {f \in [1..n -> 1..n] : \A k \in 1..n : \E i \in 1..n : f[i] = k}
    IN  {[i \in 1..n |-> products[f[i]]] : f \in bij}

SameStats(r1, r2) ==
    /\ r1.raised = r2.raised
    /\ {r1.out[j] : j \in 1..Len(r1.out)} = {r2.out[j] : j \in 1..Len(r2.out)}

\* C3: aggregation is order-independent: for every permutation of the
\* Dataset's records compute_brand_avg_rating yields the same set of
\* BrandStats (same brands, items and avg_rating) and raises DataError
\* exactly when it does on the original.
C3_OrderIndependent ==
    aggState # "idle" =>
        \A perm \in Reorderings(dataset) :
            SameStats([raised |-> aggError, out |-> aggOut],
                      ComputeBrandAvgRating(perm))

\* C4: a record with a rating present and outside [0, 5], at any position
\* and for any brand, makes compute_brand_avg_rating raise DataError and
\* return no BrandStats.
C4_OutOfRangeRaises ==
    (aggState # "idle" /\ ~AllPresentInRange(dataset)) =>
        /\ aggState = "raised"
        /\ aggError = "DataError"
        /\ aggOut = <<>>

\* The offending record is the last of three, after valid rated records.
C4_Witness ==
    /\ aggState = "raised"
    /\ Len(dataset) = 3
    /\ dataset[1].rating.has /\ WithinZeroToFive(dataset[1].rating.val)
    /\ dataset[2].rating.has /\ WithinZeroToFive(dataset[2].rating.val)
    /\ dataset[3].rating.has /\ ~WithinZeroToFive(dataset[3].rating.val)


(***************************************************************************)
(* Claims about CSVReader.load, checked under SpecLoad.                    *)
(***************************************************************************)
LastEvent == loadLog[Len(loadLog)]

\* load has just taken a data row of the file at hand.
JustReadRow == loadLog # <<>> /\ LastEvent.op = "row"

IsBlank(line) == line = <<>>

\* The data rows of a file: its lines after the header that are not blank.
DataRows(path) ==
    LET lines == FileSystem[path].lines
    IN  IF lines = <<>> THEN <<>>
        ELSE SelectSeq(Tail(lines), LAMBDA l : ~IsBlank(l))

RECURSIVE TotalRows(_)
TotalRows(files) ==
    IF files = <<>> THEN 0
    ELSE Len(DataRows(files[1])) + TotalRows(Tail(files))

IsRegularFile(path) == FileSystem[path].kind = "file"

\* The header of the file has no column for one of name, brand, price,
\* rating, or the file has no header.
LacksColumn(path) ==
    LET lines == FileSystem[path].lines
    IN  \/ lines = <<>>
        \/ IsBlank(lines[1])
        \/ \E c \in {ColName, ColBrand, ColPrice, ColRating} :
              \A h \in 1..Len(lines[1]) :
                  LowerText(StripText(lines[1][h])) # c

\* What the rows of a file with a full header parse to.
RowOutcomes(path) ==
    LET lines == FileSystem[path].lines
        hdr == ValidateAndMapHeaders(lines, path).headers
        rows == DataRows(path)
    IN  [k \in 1..Len(rows) |-> ParseRow(lines[1], rows[k], hdr, path, k + 1)]

DecodableAsUtf8(path) == FileSystem[path].encoding = "utf-8"

WellFormed(path) ==
    /\ IsRegularFile(path)
    /\ DecodableAsUtf8(path)
    /\ ~LacksColumn(path)
    /\ \A k \in 1..Len(DataRows(path)) : RowOutcomes(path)[k].raised = "none"

RecordsOf(path) ==
    [k \in 1..Len(DataRows(path)) |-> RowOutcomes(path)[k].product]

RECURSIVE Concatenation(_)
Concatenation(files) ==
    IF files = <<>> THEN <<>>
    ELSE RecordsOf(files[1]) \o Concatenation(Tail(files))

Least(S) == CHOOSE i \in S : \A j \in S : i <= j

\* C5: load is all-or-nothing: it returns one Record for every data row of
\* every listed file, or it fails and hands no Dataset to its caller, and
\* the failure on a data row is a DataError.
C5_AllOrNothing ==
    /\ loadPc = "returned" =>
          /\ loadResult.returned
          /\ Len(loadResult.products) = TotalRows(loadFiles)
    /\ loadPc = "raised" => loadResult = NoResult
    /\ (loadPc = "raised" /\ JustReadRow) => loadError.class = "DataError"

\* C6: the DataError raised for a data row carries the file's path and the
\* 1-based number of the row's line in the file, the header being line 1.
C6_LineNumberOfRow ==
    (loadPc = "raised" /\ JustReadRow /\ loadError.class = "DataError") =>
        /\ loadError.path = canonicalFiles[loadIdx]
        /\ loadError.line = loadPos

\* C7: when one listed file lacks a required column or has no header and
\* every other listed file is well-formed, load fails with a SchemaError
\* that names that file.
C7_MissingColumnIsSchemaError ==
    \A i \in 1..Len(loadFiles) :
        ( /\ IsRegularFile(loadFiles[i])
          /\ LacksColumn(loadFiles[i])
          /\ \A j \in 1..Len(loadFiles) : j # i => WellFormed(loadFiles[j]) )
        => /\ loadPc # "returned"
           /\ loadPc = "raised" =>
                 /\ loadError.class = "SchemaError"
                 /\ loadError.path = loadFiles[i]

C7_Witness ==
    /\ loadPc = "raised"
    /\ Len(loadFiles) = 2
    /\ WellFormed(loadFiles[1])
    /\ LacksColumn(loadFiles[2])
    /\ loadError.class = "SchemaError"
    /\ loadError.path = loadFiles[2]

\* C8: the Dataset a successful load returns is the concatenation, in the
\* order of the arguments, of each file's records in row order: as many
\* records as data rows, nothing deduplicated, a path listed twice counted
\* twice.
C8_ConcatenationInOrder ==
    loadPc = "returned" =>
        /\ loadResult.products = Concatenation(loadFiles)
        /\ Len(loadResult.products) = TotalRows(loadFiles)

C8_Witness ==
    /\ loadPc = "returned"
    /\ Len(loadFiles) = 2
    /\ loadFiles[1] = loadFiles[2]
    /\ Len(loadResult.products) = 2 * Len(DataRows(loadFiles[1]))
    /\ Len(loadResult.products) > 0

\* The steps of the log are taken file by file.
FileByFile(log) ==
    \A i, j \in 1..Len(log) : i <= j => log[i].idx <= log[j].idx

\* A path that is missing, a directory or unreadable.
BadPath(path) == ~IsRegularFile(path)

\* The content of a file makes load fail.
ContentFails(path) ==
    \/ ~DecodableAsUtf8(path)
    \/ LacksColumn(path)
    \/ \E k \in 1..Len(DataRows(path)) : RowOutcomes(path)[k].raised # "none"

FailsAtAll(path) == BadPath(path) \/ ContentFails(path)

\* C9 as stated: every step on file i, path resolution included, is over
\* before any step on file i+1, and the error raised is the one of the
\* earliest failing file.
C9_StrictlyOneAfterAnother ==
    /\ FileByFile(loadLog)
    /\ (loadPc = "raised" /\ loadFiles # <<>>) =>
          LET first == Least({i \in 1..Len(loadFiles) :
                                 FailsAtAll(loadFiles[i])})
          IN  IF BadPath(loadFiles[first])
              THEN loadError.path = loadFiles[first]
              ELSE loadIdx = first

\* C9: load resolves and checks every path in argument order before it
\* opens any file, so the earliest missing, unreadable or directory path
\* is reported whatever the files before it contain; it then opens,
\* validates, parses and closes the files strictly one after another in
\* argument order, and the error raised is the one of the earliest file
\* whose content fails.
C9_ResolveAllThenOneAfterAnother ==
    /\ \A i, j \in 1..Len(loadLog) :
          i <= j =>
             /\ loadLog[j].op = "resolve" => loadLog[i].op = "resolve"
             /\ (loadLog[i].op = "resolve") = (loadLog[j].op = "resolve")
                   => loadLog[i].idx <= loadLog[j].idx
    /\ \A j \in 1..Len(loadLog) :
          loadLog[j].op # "resolve" =>
             \A i \in 1..Len(loadFiles) : ~BadPath(loadFiles[i])
    /\ (loadPc = "raised" /\ loadFiles # <<>>) =>
          LET bad == {i \in 1..Len(loadFiles) : BadPath(loadFiles[i])}
              failing == {i \in 1..Len(loadFiles) :
                             ContentFails(loadFiles[i])}
          IN  IF bad # {}
              THEN /\ loadError.path = loadFiles[Least(bad)]
                   /\ loadError.class \in {"FileNotFoundError",
                                           "IsADirectoryError",
                                           "PermissionError"}
              ELSE /\ failing # {}
                   /\ loadIdx = Least(failing)
                   /\ loadError.path \in {NoPath, loadFiles[loadIdx]}

C9_Witness ==
    /\ loadPc = "raised"
    /\ Len(loadFiles) = 2
    /\ ContentFails(loadFiles[1])
    /\ ~BadPath(loadFiles[1])
    /\ BadPath(loadFiles[2])
    /\ loadError.path = loadFiles[2]

\* The row with an empty field for every header it has no field for.
PadRow(row, n) ==
    [h \in 1..n |-> IF h <= Len(row) THEN row[h] ELSE <<>>]

Last(s) == s[Len(s)]

\* C10: a data row with fewer fields than the header is processed as the
\* row with its missing fields empty: it yields the same Record, or the
\* same DataError with the file and the line, and no other error.
C10_ShortRowAsEmptyFields ==
    LET lines == FileSystem[canonicalFiles[loadIdx]].lines
        row == lines[loadPos]
        padded == ParseRow(lines[1], PadRow(row, Len(lines[1])), headerMap,
                           canonicalFiles[loadIdx], lineNo)
    IN  (JustReadRow /\ Len(row) < Len(lines[1])) =>
            IF padded.raised = "none"
            THEN /\ loadPc = "rows"
                 /\ Last(loadDataset) = padded.product
            ELSE /\ loadPc = "raised"
                 /\ loadError = padded.error


\* The file loads when its text is read with whichever of utf-8 and cp1251
\* decodes it.
LoadsOnceDecoded(path) ==
    /\ IsRegularFile(path)
    /\ ~LacksColumn(path)
    /\ \A k \in 1..Len(DataRows(path)) : RowOutcomes(path)[k].raised = "none"

\* C11: for a file that utf-8 cannot decode and cp1251 can, load reads the
\* file with cp1251 and returns its records; the decode failure of utf-8
\* does not leave load.
C11_FallbackEncoding ==
    /\ loadError.class # "UnicodeDecodeError"
    /\ ( (\E i \in 1..Len(loadFiles) : ~DecodableAsUtf8(loadFiles[i]))
          /\ (\A j \in 1..Len(loadFiles) : LoadsOnceDecoded(loadFiles[j])) )
       => loadPc # "raised"


(***************************************************************************)
(* Claims about the records of a file, checked under SpecRow.              *)
(***************************************************************************)
IsSpace(c) == c \in {" ", "\t"}

\* Not empty, no whitespace at either end.
TrimmedText(s) == s # <<>> /\ ~IsSpace(s[1]) /\ ~IsSpace(s[Len(s)])

NoSpaceRun(s) == \A i \in 1..(Len(s) - 1) : ~(IsSpace(s[i]) /\ IsSpace(s[i + 1]))

NoCapital(s) == \A i \in 1..Len(s) : ~IsUpper(s[i])

RecordWellFormed(p) ==
    /\ TrimmedText(p.name)
    /\ TrimmedText(p.brand)
    /\ NoSpaceRun(p.brand)
    /\ NoCapital(p.brand)
    /\ p.price >= 0
    /\ ~p.rating.has \/ WithinZeroToFive(p.rating.val)

\* C12: every Record that reading a file yields has a non-empty trimmed
\* name, a non-empty trimmed lower-case brand without a run of whitespace,
\* a price >= 0 and a rating that is absent or within [0, 5].
C12_RecordsWellFormed ==
    \A i \in 1..Len(rowOut.products) : RecordWellFormed(rowOut.products[i])

C12_Witness ==
    /\ rowState = "done"
    /\ rowOut.raised = "none"
    /\ Len(rowOut.products) = 1
    /\ rowOut.products[1].name # rowIn[1]
    /\ rowOut.products[1].brand # rowIn[2]
    /\ rowOut.products[1].rating.has


(***************************************************************************)
(* Claims about Product and Dataset, checked under SpecAgg.                *)
(***************************************************************************)
RangesHold(p) ==
    /\ p.price >= 0
    /\ ~p.rating.has \/ WithinZeroToFive(p.rating.val)

\* C13 as stated: price >= 0 and a rating absent or within [0, 5] hold for
\* every Record that exists; none outside the ranges is created or added.
C13_RangesHoldForEveryRecord ==
    \A i \in 1..Len(dataset) : RangesHold(dataset[i])

\* C13: Product and Dataset.add check nothing: every Record a caller
\* builds and adds is stored as it is, a negative price or a rating
\* outside [0, 5] included.  A rating outside [0, 5] is found later, when
\* the aggregator reads the Dataset and raises DataError; a negative price
\* is found by nothing.
C13_NoCheckAtConstruction ==
    /\ dataset = aggAdded
    /\ aggState = "raised" =>
          \E i \in 1..Len(dataset) :
              dataset[i].rating.has
              /\ ~WithinZeroToFive(dataset[i].rating.val)
    /\ (aggState # "idle"
        /\ \A i \in 1..Len(dataset) :
              dataset[i].rating.has => WithinZeroToFive(dataset[i].rating.val))
       => aggState = "returned"

C13_Witness ==
    /\ aggState = "returned"
    /\ \E i \in 1..Len(dataset) : dataset[i].price < 0
    /\ \E j \in 1..Len(dataset) : dataset[j].rating.has
    /\ aggOut # <<>>


\* The file with the plain header name,brand,price,rating and the values
\* in that order.
PlainFile(values) == <<<<ColName, ColBrand, ColPrice, ColRating>>, values>>

\* The Records of a one-row file, none when reading it fails.
RecordsOfFile(f) ==
    LET h == ValidateAndMapHeaders(f, RowPath)
        r == ParseRow(f[1], f[2], h.headers, RowPath, 2)
    IN  IF h.raised # "none" THEN <<>>
        ELSE IF r.raised # "none" THEN <<>>
        ELSE <<r.product>>

\* C14: the Records of a file depend on the values under the four required
\* columns only: in every order of the columns, spelling of the header
\* names and with a column of another name, they are the Records of the
\* plain file with the same values.
C14_LayoutIndependent ==
    rowState = "done" =>
        /\ rowOut.products = RecordsOfFile(PlainFile(rowIn))
        /\ (rowOut.raised = "none") = (Len(rowOut.products) = 1)

C14_Witness ==
    /\ rowState = "done"
    /\ Len(rowFile[1]) = 5
    /\ rowFile[1][3] = <<"x">>
    /\ rowFile[1][5] = <<" ", "N", "a", "m", "e">>
    /\ rowFile[1][1] = <<"\t", "R", "a", "t", "i", "n", "g", " ">>
    /\ Len(rowOut.products) = 1
    /\ rowOut.products = RecordsOfFile(PlainFile(rowIn))


(***************************************************************************)
(* Claims about normalizer.py, checked under SpecNorm.                     *)
(***************************************************************************)
AbsentWords ==
    {<<"n", "a">>, <<"n", "/", "a">>, <<"n", "o", "n", "e">>,
     <<"n", "u", "l", "l">>}

\* The letter in the other case, any other character itself.
OtherCase(c) ==
    IF \E i \in 1..26 : UpperLetters[i] = c
    THEN LowerLetters[CHOOSE i \in 1..26 : UpperLetters[i] = c]
    ELSE IF \E i \in 1..26 : LowerLetters[i] = c
         THEN UpperLetters[CHOOSE i \in 1..26 : LowerLetters[i] = c]
         ELSE c

SmallLetter(c) == IF \E i \in 1..26 : UpperLetters[i] = c THEN OtherCase(c) ELSE c

InSmallLetters(s) == [i \in 1..Len(s) |-> SmallLetter(s[i])]

SwapCase(s) == [i \in 1..Len(s) |-> OtherCase(s[i])]

\* The text without the whitespace at its two ends.
RECURSIVE Trimmed(_)
Trimmed(s) ==
    IF s = <<>> THEN s
    ELSE IF IsSpace(s[1]) THEN Trimmed(Tail(s))
    ELSE IF IsSpace(s[Len(s)]) THEN Trimmed(SubSeq(s, 1, Len(s) - 1))
    ELSE s

\* C15: parse_rating gives absent exactly for an input that is empty once
\* trimmed or is na, n/a, none or null in any letter case; else the number
\* the input denotes, comma read as period, when that lies in [0, 5]
\* (0 and 5 included, 0 being a rating); else DataError.  It never
\* returns a value outside [0, 5].
C15_ParseRatingOutcomes ==
    normFn = "parse_rating" =>
        LET t == Trimmed(normIn)
            f == ParseFloat(CommaToPeriod(t))
            absent == t = <<>> \/ InSmallLetters(t) \in AbsentWords
        IN  /\ absent = (normOut = Return(None))
            /\ ~absent =>
                  IF f.ok /\ ~f.nan /\ WithinZeroToFive(f.val)
                  THEN normOut = Return(Some(f.val))
                  ELSE normOut.raised = "DataError"
            /\ normOut.raised \in {"none", "DataError"}

C15_Witness ==
    /\ normFn = "parse_rating"
    /\ normIn = <<"0">>
    /\ normOut = Return(Some(0))

\* What parse_price keeps: digits, comma, period, hyphen, space.
KeptInPrice(c) == c \in Digits \cup {",", ".", "-", " "}

\* A whitespace or underscore after a digit and before exactly three
\* digits.
BeforeThreeDigits(t, i) ==
    /\ IsSpace(t[i]) \/ t[i] = "_"
    /\ i > 1 /\ t[i - 1] \in Digits
    /\ i + 3 <= Len(t)
    /\ t[i + 1] \in Digits /\ t[i + 2] \in Digits /\ t[i + 3] \in Digits
    /\ i + 4 <= Len(t) => t[i + 4] \notin Digits

RECURSIVE WithoutSeparators(_, _)
WithoutSeparators(t, i) ==
    IF i > Len(t) THEN <<>>
    ELSE IF BeforeThreeDigits(t, i) THEN WithoutSeparators(t, i + 1)
    ELSE <<t[i]>> \o WithoutSeparators(t, i + 1)

PriceText(raw) ==
    LET kept == SelectSeq(Trimmed(raw), KeptInPrice)
        joined == WithoutSeparators(kept, 1)
    IN  [i \in 1..Len(joined) |-> IF joined[i] = "," THEN "." ELSE joined[i]]

\* C16: parse_price returns a value >= 0 or fails with DataError: it fails
\* for an input empty once trimmed; else it drops every character but
\* digits, comma, period, hyphen and space, drops each separator between a
\* digit and exactly three digits, reads comma as period, and returns the
\* number the text denotes, failing when it denotes none or a negative
\* one.
C16_ParsePriceOutcomes ==
    normFn = "parse_price" =>
        LET f == ParseFloat(PriceText(normIn))
        IN  /\ IF Trimmed(normIn) = <<>> \/ ~f.ok \/ (~f.nan /\ f.val < 0)
               THEN normOut.raised = "DataError"
               ELSE normOut = Return(f.val)
            /\ normOut.raised \in {"none", "DataError"}
            /\ normOut.raised = "none" => normOut.val >= 0
            /\ normIn = <<"-", "5">> => normOut.raised = "DataError"

C16_Witness ==
    /\ normFn = "parse_price"
    /\ normIn = <<"1", " ", "2", "3", "4", ",", "5", "0", " ", "$">>
    /\ normOut = Return(FloatOfTenths(12345))

\* The words of a text: its runs of characters that are not whitespace.
RECURSIVE WordsOf(_, _)
WordsOf(s, word) ==
    IF s = <<>> THEN (IF word = <<>> THEN <<>> ELSE <<word>>)
    ELSE IF IsSpace(Head(s))
         THEN (IF word = <<>> THEN <<>> ELSE <<word>>) \o WordsOf(Tail(s), <<>>)
         ELSE WordsOf(Tail(s), Append(word, Head(s)))

RECURSIVE JoinWords(_)
JoinWords(ws) ==
    IF ws = <<>> THEN <<>>
    ELSE IF Len(ws) = 1 THEN ws[1]
    ELSE ws[1] \o <<" ">> \o JoinWords(Tail(ws))

\* The same brand written otherwise: in the other letter case, inside
\* whitespace, with every whitespace character doubled.
RECURSIVE Widened(_)
Widened(s) ==
    IF s = <<>> THEN <<>>
    ELSE IF IsSpace(Head(s)) THEN <<Head(s), "\t">> \o Widened(Tail(s))
    ELSE <<Head(s)>> \o Widened(Tail(s))

Respellings(raw) ==
    {SwapCase(raw), <<" ", "\t">> \o raw \o <<"\t", " ">>, Widened(raw)}

\* C17: normalize_brand returns the words of its input in lower case with
\* one space between them, and fails with DataError when there is no word;
\* inputs that differ in letter case, surrounding whitespace or the length
\* of whitespace runs give the same result, and a normalized brand
\* normalizes to itself.
C17_NormalizeBrand ==
    normFn = "normalize_brand" =>
        /\ IF WordsOf(normIn, <<>>) = <<>>
           THEN normOut.raised = "DataError"
           ELSE normOut = Return(InSmallLetters(JoinWords(WordsOf(normIn, <<>>))))
        /\ \A other \in Respellings(normIn) : NormalizeBrand(other) = normOut
        /\ normOut.raised = "none" => NormalizeBrand(normOut.val) = normOut

C17_Witness ==
    /\ normFn = "normalize_brand"
    /\ normIn = <<" ", " ", "A", "d", "i", "D", "A", "S", " ", " ">>
    /\ normOut = Return(<<"a", "d", "i", "d", "a", "s">>)


(***************************************************************************)
(* Claims about reports/registry.py, checked under SpecReg.                *)
(***************************************************************************)
\* The name trimmed and in lower case.
KeyOfName(name) == InSmallLetters(Trimmed(name))

C18_RegisterStep ==
    regResult'.op = "register" =>
        LET reg == regResult'.reg
            report_cls == regResult'.arg
            before == regHeap[reg]
            after == regHeap'[reg]
            unnamed == ~report_cls.name.isStr
                       \/ Trimmed(report_cls.name.text) = <<>>
            key == KeyOfName(report_cls.name.text)
            taken == ~unnamed /\ key \in DOMAIN before
        IN  /\ (regResult'.raised # "none") = (unnamed \/ taken)
            /\ (unnamed \/ taken) => regHeap' = regHeap
            /\ \A k \in DOMAIN before :
                  k \in DOMAIN after /\ after[k] = before[k]
            /\ ~(unnamed \/ taken) =>
                  /\ DOMAIN after = DOMAIN before \cup {key}
                  /\ after[key] = report_cls.cls
            /\ taken =>
                  Create(after, report_cls.name.text).instanceOf = before[key]

\* C18: register fails when the name is empty or only whitespace, or when
\* its trimmed, lower-cased form is already registered; a failed register
\* leaves the registry as it was, so no registration is overwritten and
\* create for that name returns the report registered first.
C18_RegisterRejects == [][C18_RegisterStep]_vars

C18_Witness ==
    /\ regResult.op = "register"
    /\ regResult.raised = "ValueError"
    /\ regResult.arg.cls = "OtherDummyReport"
    /\ <<"d", "u", "m", "m", "y">> \in DOMAIN regHeap[regResult.reg]
    /\ regHeap[regResult.reg][<<"d", "u", "m", "m", "y">>] = "DummyReport"

C19_CreateStep ==
    regResult'.op = "create" =>
        LET registry == regHeap[regResult'.reg]
            name == regResult'.arg
        IN  /\ regHeap' = regHeap
            /\ IF KeyOfName(name) \in DOMAIN registry
               THEN /\ regResult'.raised = "none"
                    /\ regResult'.value.instanceOf = registry[KeyOfName(name)]
               ELSE /\ regResult'.raised = "ReportNotFoundError"
                    /\ regResult'.value.named = name

\* C19: create(name) returns an instance of the report registered under
\* the trimmed, lower-cased name when there is one, and else fails with
\* ReportNotFoundError naming what was asked for; it never changes what is
\* registered.
C19_CreateLooksUp == [][C19_CreateStep]_vars

C19_Witness ==
    /\ regResult.op = "create"
    /\ regResult.arg = <<"D", "U", "M", "M", "Y", " ">>
    /\ regResult.raised = "none"
    /\ regResult.value.instanceOf = "DummyReport"

\* What holds of a registry that get_default_registry has returned.
DefaultHolds(heap, reg, registered) ==
    /\ reg \in 1..Len(heap)
    /\ AverageRating \in DOMAIN heap[reg]
    /\ DOMAIN heap[reg] = {AverageRating} \cup registered[reg]

C20_Step ==
    /\ regResult'.op = "get_default_registry" =>
          /\ regGiven # NoRegistry => regResult'.reg = regGiven
          /\ regGiven = NoRegistry =>
                /\ regResult'.reg \notin regGivenEver
                /\ regResult'.reg \notin 1..Len(regHeap)
                /\ DOMAIN regHeap'[regResult'.reg] = {AverageRating}
    /\ \A reg \in regGivenEver' :
          DefaultHolds(regHeap', reg, regRegistered')

\* C20: get_default_registry returns the same registry on every call
\* between two resets; after a reset the next call returns another, new
\* one that holds average-rating only; a registry it returned always
\* holds average-rating and, besides, the names registered on it since it
\* was made, nothing else.
C20_DefaultRegistry == [][C20_Step]_vars

C20_Witness ==
    /\ regResult.op = "get_default_registry"
    /\ Cardinality(regGivenEver) = 2
    /\ \E old \in regGivenEver :
          /\ old # regResult.reg
          /\ <<"d", "u", "m", "m", "y">> \in DOMAIN regHeap[old]
    /\ DOMAIN regHeap[regResult.reg] = {AverageRating}

(***************************************************************************)
(* The file handles of load, checked under SpecLoad.                       *)
(***************************************************************************)
\* The rows of file idx of the call that the log says were read.
RowsReadOf(log, idx) ==
    Cardinality({i \in 1..Len(log) : log[i] = Event("row", idx)})

\* Position i of the log opens a file that is not the first: the file
\* before it was opened, read to its last row and closed, in that order,
\* earlier in the log.
OpenedAfterClose(log, i) ==
    LET k == log[i].idx
    IN  k > 1 =>
          \E o \in 1..(i - 1) : \E c \in (o + 1)..(i - 1) :
              /\ log[o] = Event("open", k - 1)
              /\ log[c] = Event("close", k - 1)
              /\ RowsReadOf(SubSeq(log, o, c), k - 1)
                    = Len(DataRows(canonicalFiles[k - 1]))

\* C27: while load runs at most one input file is open at any moment, the
\* one being read; a file is opened only after the one before it was
\* opened, read to its end and closed; and once load is left, by return
\* or by any error, no file is open.
C27_OneFileOpenAtATime ==
    /\ Len(openFiles) <= 1
    /\ loadPc \in {"header", "rows"} => openFiles = <<canonicalFiles[loadIdx]>>
    /\ loadPc \notin {"header", "rows"} => openFiles = <<>>
    /\ \A i \in 1..Len(loadLog) :
          loadLog[i].op = "open" => OpenedAfterClose(loadLog, i)

\* A row of the second file made load fail after the first file was read
\* and closed.
C27_Witness ==
    /\ loadPc = "raised"
    /\ loadError.class = "DataError"
    /\ loadIdx = 2
    /\ Event("close", 1) \in {loadLog[i] : i \in 1..Len(loadLog)}
    /\ JustReadRow
    /\ openFiles = <<>>

(***************************************************************************)
(* The table of the presenter, checked under SpecRender.                   *)
(***************************************************************************)
\* Row r1 comes strictly before row r2 when the rows are ordered by
\* `field`, downwards when `descending` and upwards when not.
ComesBefore(field, descending, r1, r2) ==
    LET below(x, y) ==
            CASE field = "brand" -> TextLess(x.brand, y.brand)
              [] field = "avg_rating" -> x.avg_rating < y.avg_rating
              [] field = "items" -> x.items < y.items
    IN  IF descending THEN below(r2, r1) ELSE below(r1, r2)

\* How a row of the input shows in the table.
Shown(r) == <<r.brand, Format2f(r.avg_rating), r.items>>

Smaller(a, b) == IF a < b THEN a ELSE b

\* The ways to pick n of the m input rows, each at most once.
Picks(n, m) ==
    {f \in [1..n -> 1..m] : \A j, k \in 1..n : f[j] = f[k] => j = k}

\* C25: render_brand_stats outputs the input rows ordered by the requested
\* sort field in the requested direction, cut to the first limit rows when
\* a limit >= 0 is given (none for limit 0) and all of them when no limit
\* is given; each rendered row is one of the input rows, and the caller's
\* list is left as it was.
C25_RenderOrderedAndLimited ==
    (renderIn.called /\ renderIn.sort_by \in {"brand", "avg_rating", "items"}) =>
        LET rows == renderIn.rows
            out == renderOut.table
            field == renderIn.sort_by
            down == renderIn.descending
        IN  /\ renderOut.raised = "none"
            /\ renderRows = rows
            /\ ~renderIn.limit.has => Len(out) = Len(rows)
            /\ (renderIn.limit.has /\ renderIn.limit.val >= 0) =>
                  Len(out) = Smaller(renderIn.limit.val, Len(rows))
            /\ Len(out) <= Len(rows)
            /\ \E f \in Picks(Len(out), Len(rows)) :
                  /\ \A j \in 1..Len(out) : out[j] = Shown(rows[f[j]])
                  /\ \A j \in 1..(Len(out) - 1) :
                        ~ComesBefore(field, down, rows[f[j + 1]], rows[f[j]])
                  /\ \A i \in 1..Len(rows) :
                        (\A j \in 1..Len(out) : f[j] # i) =>
                            \A j \in 1..Len(out) :
                                ~ComesBefore(field, down, rows[i], rows[f[j]])

\* Three rows by items, downwards, cut to two: the last input row comes
\* first and the row with the fewest items is left out.
C25_Witness ==
    /\ renderIn.called
    /\ renderIn.sort_by = "items"
    /\ renderIn.descending
    /\ renderIn.limit = Some(2)
    /\ Len(renderIn.rows) = 3
    /\ Len(renderOut.table) = 2
    /\ renderOut.table[1] = Shown(renderIn.rows[3])
    /\ renderOut.table[2] = Shown(renderIn.rows[1])
    /\ renderIn.rows[2].items < renderIn.rows[1].items
    /\ renderIn.rows[1].items < renderIn.rows[3].items

(***************************************************************************)
(* The runs of the command, checked under SpecCli.                         *)
(***************************************************************************)
\* No input file has been resolved, opened or read in this process.
NoFileTouched ==
    /\ loadPc = "idle"
    /\ loadLog = <<>>
    /\ canonicalFiles = <<>>
    /\ openFiles = <<>>

NegativeLimit(argv) == argv.limit.has /\ argv.limit.val < 0

\* C21: run touches no input file before its arguments are validated: with
\* the version flag it prints the version and returns 0, and without files
\* or with a negative row limit it returns 1, each time with no file
\* resolved, opened or read, whatever the other arguments the parser
\* accepted are; a file is touched only in a run with files, a limit that
\* is not negative and no version flag.
C21_NothingTouchedBeforeValidation ==
    /\ (cliPc = "returned" /\ cliArgs.version) =>
          /\ cliCode = 0
          /\ cliOut = <<[kind |-> "version", text |-> <<"1.0.0">>]>>
          /\ NoFileTouched
    /\ (cliPc = "returned" /\ ~cliArgs.version
            /\ (cliArgs.files = <<>> \/ NegativeLimit(cliArgs))) =>
          /\ cliCode = 1
          /\ NoFileTouched
    /\ cliPc = "exited" => NoFileTouched
    /\ ~NoFileTouched =>
          /\ ~cliArgs.version
          /\ cliArgs.files # <<>>
          /\ ~NegativeLimit(cliArgs)

\* The version flag with a file that does not exist and a negative limit.
C21_Witness ==
    /\ cliPc = "returned"
    /\ cliArgs.version
    /\ cliArgs.files = <<"missing.csv">>
    /\ NegativeLimit(cliArgs)
    /\ cliCode = 0
    /\ NoFileTouched

\* The report the run asks for is not registered.
Unregistered(argv) == KeyOfName(argv.report) # AverageRating

\* The Error line that says the report is unknown.
IsReportNotFound(line) ==
    /\ line.kind = "error"
    /\ line.text = <<"Error: ", <<"Unknown report", cliArgs.report>>>>

\* The Error line that carries the message of the exception that left
\* load (a message about a path ends with the path).
ShowsLoadError(line) ==
    /\ line.kind = "error"
    /\ LET t == line.text
           at == IF loadError.line = 0 /\ loadError.path # ""
                 THEN Len(t) - 1 ELSE Len(t)
       IN  t[at] = loadError.msg

ErrorLines(err) == {i \in 1..Len(err) : err[i].kind = "error"}

\* Every file of the run was opened, read and closed.
AllFilesRead ==
    /\ canonicalFiles = cliArgs.files
    /\ \A k \in 1..Len(cliArgs.files) :
          \E i \in 1..Len(loadLog) : loadLog[i] = Event("close", k)

\* C22: the report name is looked up only after load has returned: with
\* valid files and an unregistered name the run fails with
\* report-not-found after every file was loaded, and with an invalid file
\* and an unregistered name the error reported is that of load.
C22_LookupAfterLoad ==
    /\ (defaultRegistry # NoRegistry \/ regResult.op # "none") =>
          /\ loadPc = "returned"
          /\ loadResult.returned
    /\ (cliPc = "returned" /\ loadPc = "returned" /\ Unregistered(cliArgs)) =>
          /\ cliCode = 1
          /\ AllFilesRead
          /\ IsReportNotFound(Last(cliErr))
          /\ Cardinality(ErrorLines(cliErr)) = 1
    /\ (cliPc = "returned" /\ loadPc = "raised" /\ Unregistered(cliArgs)) =>
          /\ cliCode = 1
          /\ defaultRegistry = NoRegistry
          /\ \A i \in ErrorLines(cliErr) : ~IsReportNotFound(cliErr[i])
          /\ ShowsLoadError(Last(cliErr))

\* Two files that load, and a report that is not there.
C22_Witness ==
    /\ cliPc = "returned"
    /\ cliArgs.files = <<"a.csv", "b.csv">>
    /\ Unregistered(cliArgs)
    /\ AllFilesRead
    /\ IsReportNotFound(Last(cliErr))

\* Loading, report lookup, report generation and rendering all succeeded.
AllSucceeded ==
    /\ loadPc = "returned"
    /\ loadResult.returned
    /\ ~Unregistered(cliArgs)
    /\ \A i \in 1..Len(loadResult.products) :
          loadResult.products[i].rating.has =>
              WithinZeroToFive(loadResult.products[i].rating.val)
    /\ cliArgs.sort \in {"brand", "avg_rating", "items"}

TablePrinted == Len(cliOut) = 1 /\ cliOut[1].kind = "table"

\* C23, as claimed: run returns 0 exactly when loading, report lookup,
\* report generation and rendering all succeed, and then prints the table;
\* in every other case it returns 1, writes exactly one line
\* 'Error: <message>' to the error stream and prints no table.
C23_ZeroExactlyOnSuccess ==
    cliPc = "returned" =>
        /\ cliCode = 0 <=> AllSucceeded
        /\ cliCode = 0 => TablePrinted
        /\ cliCode # 0 =>
              /\ cliCode = 1
              /\ Cardinality(ErrorLines(cliErr)) = 1
              /\ cliOut = <<>>

\* C23, amended: run returns 0 when the version flag is given, having
\* printed the version only, and otherwise exactly when loading, report
\* lookup, report generation and rendering all succeed, having printed the
\* table; every other run whose arguments the parser accepted returns 1,
\* prints nothing to standard output and writes exactly one line
\* 'Error: <message>', the last line of the error stream, after the lines
\* logging wrote there; arguments the parser rejects end the run with
\* exit status 2 and the parser's usage text; no exception leaves run.
C23_ExitCodes ==
    /\ cliPc # "raised"
    /\ cliPc = "returned" =>
          /\ cliCode = 0 <=> (cliArgs.version \/ AllSucceeded)
          /\ (cliCode = 0 /\ cliArgs.version) =>
                /\ Len(cliOut) = 1 /\ cliOut[1].kind = "version"
                /\ cliErr = <<>>
          /\ (cliCode = 0 /\ ~cliArgs.version) =>
                /\ TablePrinted
                /\ ErrorLines(cliErr) = {}
          /\ cliCode # 0 =>
                /\ cliCode = 1
                /\ cliOut = <<>>
                /\ ErrorLines(cliErr) = {Len(cliErr)}
    /\ cliPc = "exited" =>
          /\ cliCode = 2
          /\ cliOut = <<>>
          /\ ErrorLines(cliErr) = {}

\* A row that is too short ended the run by an unexpected error: code 1,
\* one Error line after the log lines, no table.
C23_Witness ==
    /\ cliPc = "returned"
    /\ cliArgs.files = <<"a.csv", "short.csv">>
    /\ loadError.class = "AttributeError"
    /\ cliCode = 1
    /\ Len(cliErr) > 1
    /\ ErrorLines(cliErr) = {Len(cliErr)}
    /\ cliOut = <<>>

\* C24: what a run that fails by an unexpected error writes for the user
\* is a generic message that does not depend on the error: the runs that
\* failed by different unexpected errors all wrote the same Error line.
C24_UnexpectedErrorsLookAlike == Cardinality(cliShown) <= 1

\* The brands of the printed table go upwards / downwards.
BrandsAscending(rows) ==
    \A j \in 1..(Len(rows) - 1) : TextLess(rows[j][1], rows[j + 1][1])
BrandsDescending(rows) ==
    \A j \in 1..(Len(rows) - 1) : TextLess(rows[j + 1][1], rows[j][1])

AsksAscending(argv) == argv.rest = <<"--ascending">>

\* C26: the command lets the caller choose descending or ascending order,
\* descending by default, and the rows run prints follow the choice: a run
\* on files that load, sorted by brand, prints the brands in ascending
\* order when ascending order is asked for and in descending order when
\* it is not.
C26_DirectionFollowsRequest ==
    (/\ cliPc \in {"returned", "exited", "raised"}
     /\ ~cliArgs.version
     /\ cliArgs.files # <<>>
     /\ \A k \in 1..Len(cliArgs.files) : WellFormed(cliArgs.files[k])
     /\ ~NegativeLimit(cliArgs)
     /\ ~Unregistered(cliArgs)
     /\ cliArgs.sort = "brand") =>
        /\ cliCode = 0
        /\ TablePrinted
        /\ IF AsksAscending(cliArgs)
           THEN BrandsAscending(cliOut[1].rows)
           ELSE BrandsDescending(cliOut[1].rows)

(***************************************************************************)
(* The summation of the aggregator, checked under SpecAgg.                 *)
(***************************************************************************)
\* The sum the loop of compute_brand_avg_rating has accumulated for `brand`
\* once it has gone through `products`.
SumOfBrand(products, brand) ==
    LET acc == AggLoop(products, 1, <<>>).acc
    IN  acc[AccIndex(acc, brand)].sum_ratings

\* C28: each brand's rating sum is accumulated by a numerically stable
\* summation whose precision does not depend on the order of the records
\* (the float nearest to the exact sum of the brand's ratings), not by
\* adding the ratings one after another with a rounding at each step.
C28_StableSummation ==
    aggState = "returned" =>
        \A b \in BrandsIn(dataset) :
            PresentRatings(dataset, b) # <<>> =>
                SumOfBrand(dataset, b)
                    = FRound(ExactSum(PresentRatings(dataset, b)), 1)

====
